---------------------------- MODULE Spec2Model ----------------------------
(***************************************************************************)
(* Certificate Sharing Tool: the participant pipeline of index.js (its     *)
(* text is carried in src/README.md), the retry loops around the Drive     *)
(* calls, the bounded breadth-first folder search, and the sharding of     *)
(* records over worker processes launched by the monitor.                  *)
(*                                                                         *)
(* Strings the code inspects (names, e-mails, ids, cell values, reasons)   *)
(* are sequences of UTF-16 code units, so that toLowerCase, trim,          *)
(* includes, charCodeAt and the djb2 hash are computed, not assumed.       *)
(***************************************************************************)
EXTENDS Integers, Sequences, FiniteSets, TLC

(***************************************************************************)
(* Bounds of the model                                                     *)
(***************************************************************************)
\* data rows of the sheet
NRows == 2
\* passes each worker makes (loop mode runs passes for ever)
MaxPasses == 2
\* provider errors and failed cell writes injected in one behaviour
MaxFaults == 2
\* shard counts the partition property is checked for
MaxShardTotal == 3
\* Drive calls one worker makes through throttle()
MaxCalls == 3
\* calls to the Sheets API between them
MaxSheetCalls == 2
\* monitor processes started on one machine
NMonitors == 2
\* re-queues of one folder that are counted
RequeueCap == 3
\* workers the monitor is asked to launch, at most
MaxWorkers == 4

(***************************************************************************)
(* String literals                                                         *)
(***************************************************************************)
\* "TRUE"
sTRUE == <<84, 82, 85, 69>>
\* "FALSE"
sFALSE == <<70, 65, 76, 83, 69>>
\* "true"
sTrueLower == <<116, 114, 117, 101>>
\* "Nama"
hNama == <<78, 97, 109, 97>>
\* "Email"
hEmail == <<69, 109, 97, 105, 108>>
\* "FolderId"
hFolderId == <<70, 111, 108, 100, 101, 114, 73, 100>>
\* "isShared"
hIsShared == <<105, 115, 83, 104, 97, 114, 101, 100>>
\* "isFolderExists"
hIsFolderExists == <<105, 115, 70, 111, 108, 100, 101, 114, 69, 120, 105, 115, 116, 115>>
\* "LastLog"
hLastLog == <<76, 97, 115, 116, 76, 111, 103>>
\* "No"
hNo == <<78, 111>>
\* "SKIP: INVALID EMAIL '"
tSkipInvalid == <<83, 75, 73, 80, 58, 32, 73, 78, 86, 65, 76, 73, 68, 32, 69, 77, 65, 73, 76, 32, 39>>
\* "SKIP: Duplicate entry"
tSkipDup == <<83, 75, 73, 80, 58, 32, 68, 117, 112, 108, 105, 99, 97, 116, 101, 32, 101, 110, 116, 114, 121>>
\* "SKIP: Already shared"
tSkipShared == <<83, 75, 73, 80, 58, 32, 65, 108, 114, 101, 97, 100, 121, 32, 115, 104, 97, 114, 101, 100>>
\* "FOLDER NOT FOUND: '"
tNotFound == <<70, 79, 76, 68, 69, 82, 32, 78, 79, 84, 32, 70, 79, 85, 78, 68, 58, 32, 39>>
\* "SKIP: Already has "
tSkipHas == <<83, 75, 73, 80, 58, 32, 65, 108, 114, 101, 97, 100, 121, 32, 104, 97, 115, 32>>
\* " access"
tAccess == <<32, 97, 99, 99, 101, 115, 115>>
\* "GRANTED"
tGranted == <<71, 82, 65, 78, 84, 69, 68>>
\* "DRY_RUN"
tDryRun == <<68, 82, 89, 95, 82, 85, 78>>
\* " -> " written with the arrow U+2192
tArrow == <<32, 8594, 32>>
\* "ERROR:"
tError == <<69, 82, 82, 79, 82, 58>>
\* " op="
tOp == <<32, 111, 112, 61>>
\* " ctx="
tCtx == <<32, 99, 116, 120, 61>>
\* "'"
tQuote == <<39>>
\* the timestamp getCurrentTimestamp() yields, in brackets: "[t] "
tTs == <<91, 116, 93, 32>>
\* "," and " " and "|" and "@"
tComma == <<44>>
tSp == <<32>>
tBar == <<124>>
tAt == <<64>>
\* "reader", "writer"
roleReader == <<114, 101, 97, 100, 101, 114>>
roleWriter == <<119, 114, 105, 116, 101, 114>>
\* "drive.files.list"
opFilesList == <<100, 114, 105, 118, 101, 46, 102, 105, 108, 101, 115, 46, 108, 105, 115, 116>>
\* "drive.permissions.list"
opPermList == <<100, 114, 105, 118, 101, 46, 112, 101, 114, 109, 105, 115, 115, 105, 111, 110, 115, 46, 108, 105, 115, 116>>
\* "drive.permissions.create"
opPermCreate == <<100, 114, 105, 118, 101, 46, 112, 101, 114, 109, 105, 115, 115, 105, 111, 110, 115, 46, 99, 114, 101, 97, 116, 101>>
\* "rateLimitExceeded"
rRate == <<114, 97, 116, 101, 76, 105, 109, 105, 116, 69, 120, 99, 101, 101, 100, 101, 100>>
\* "userRateLimitExceeded"
rUserRate == <<117, 115, 101, 114, 82, 97, 116, 101, 76, 105, 109, 105, 116, 69, 120, 99, 101, 101, 100, 101, 100>>
\* "sharingRateLimitExceeded"
rSharingRate == <<115, 104, 97, 114, 105, 110, 103, 82, 97, 116, 101, 76, 105, 109, 105, 116, 69, 120, 99, 101, 101, 100, 101, 100>>
\* "forbidden"
rForbidden == <<102, 111, 114, 98, 105, 100, 100, 101, 110>>
\* "dailyLimitExceeded"
rDaily == <<100, 97, 105, 108, 121, 76, 105, 109, 105, 116, 69, 120, 99, 101, 101, 100, 101, 100>>
\* the empty string; null and undefined are falsy like it wherever the code tests them
Empty == <<>>

(***************************************************************************)
(* String functions of the JavaScript runtime, as the code uses them       *)
(***************************************************************************)
\* String.prototype.toLowerCase on the code units A-Z
ToLower(s) == [i \in 1..Len(s) |-> IF s[i] \in 65..90 THEN s[i] + 32 ELSE s[i]]

IsSpace(c) == c \in {9, 10, 11, 12, 13, 32}

\* String.prototype.trim
RECURSIVE TrimLeft(_)
TrimLeft(s) == IF s # <<>> /\ IsSpace(Head(s)) THEN TrimLeft(Tail(s)) ELSE s

RECURSIVE TrimRight(_)
TrimRight(s) ==
  IF s # <<>> /\ IsSpace(s[Len(s)]) THEN TrimRight(SubSeq(s, 1, Len(s) - 1)) ELSE s

Trim(s) == TrimRight(TrimLeft(s))

\* String.prototype.includes
Includes(s, sub) ==
  \E i \in 1..(Len(s) - Len(sub) + 1) : SubSeq(s, i, i + Len(sub) - 1) = sub

\* Array.prototype.indexOf: 0-based, -1 when absent
IndexOf(seq, x) ==
  IF \E i \in 1..Len(seq) : seq[i] = x
  THEN (CHOOSE i \in 1..Len(seq) : seq[i] = x /\ \A j \in 1..(i - 1) : seq[j] # x) - 1
  ELSE -1

\* Array.prototype.filter
FilterSeq(s, Keep(_)) ==
  LET F[i \in 0..Len(s)] ==
        IF i = 0 THEN <<>>
        ELSE IF Keep(s[i]) THEN Append(F[i - 1], s[i]) ELSE F[i - 1]
  IN  F[Len(s)]

\* a slice that keeps the whole array
SliceAll(s, n) == s

\* Array.prototype.slice(0, n)
SliceTo(s, n) == SubSeq(s, 1, IF n < Len(s) THEN n ELSE Len(s))

Range(s) == {s[i] : i \in 1..Len(s)}

(***************************************************************************)
(* hashKey: djb2 over the code units, kept to 32 bits.  A 32-bit unsigned  *)
(* value is held as <<high 16 bits, low 16 bits>>.                         *)
(***************************************************************************)
Half == 256 * 256

\* hash = ((hash << 5) + hash) + charCode; hash = hash | 0
HashStep(h, c) ==
  LET low == 33 * h[2] + c
      high == 33 * h[1] + (low \div Half)
  IN  <<high % Half, low % Half>>

RECURSIVE HashFrom(_, _)
HashFrom(h, s) == IF s = <<>> THEN h ELSE HashFrom(HashStep(h, Head(s)), Tail(s))

\* return hash >>> 0, starting from 5381
hashKey(s) == HashFrom(<<0, 5381>>, s)

\* h % n for the unsigned 32-bit h and n >= 1
HashRem(h, n) == (((h[1] % n) * (Half % n)) + (h[2] % n)) % n

(***************************************************************************)
(* The sheet: a header row and NRows data rows, every row GridCols cells.  *)
(* Data row i is sheet row i + 1 (rowIndex = index + 2 counted from 0).    *)
(***************************************************************************)
Layout6 == <<hNama, hEmail, hFolderId, hIsShared, hIsFolderExists, hLastLog>>
Layout7 == <<hNo, hNama, hEmail, hFolderId, hIsShared, hIsFolderExists, hLastLog>>
GridCols == Len(Layout7)

\* ['nama peserta', 'nama', 'nama lengkap', 'name', 'full name', 'participant name']
nameCandidates ==
  << <<110, 97, 109, 97, 32, 112, 101, 115, 101, 114, 116, 97>>,
     <<110, 97, 109, 97>>,
     <<110, 97, 109, 97, 32, 108, 101, 110, 103, 107, 97, 112>>,
     <<110, 97, 109, 101>>,
     <<102, 117, 108, 108, 32, 110, 97, 109, 101>>,
     <<112, 97, 114, 116, 105, 99, 105, 112, 97, 110, 116, 32, 110, 97, 109, 101>> >>
\* ['email address', 'email', 'e-mail', 'gmail', 'participant email']
emailCandidates ==
  << <<101, 109, 97, 105, 108, 32, 97, 100, 100, 114, 101, 115, 115>>,
     <<101, 109, 97, 105, 108>>,
     <<101, 45, 109, 97, 105, 108>>,
     <<103, 109, 97, 105, 108>>,
     <<112, 97, 114, 116, 105, 99, 105, 112, 97, 110, 116, 32, 101, 109, 97, 105, 108>> >>

\* findIndexByNames: the first candidate that is a (trimmed, lower-cased) header
findIndexByNames(hd, candidates) ==
  LET lower == [i \in 1..Len(hd) |-> ToLower(Trim(hd[i]))]
      hits == {k \in 1..Len(candidates) : IndexOf(lower, candidates[k]) # -1}
  IN  IF hits = {} THEN -1
      ELSE IndexOf(lower, candidates[CHOOSE k \in hits : \A j \in hits : k <= j])

\* the columns object getSpreadsheetDataFlexible returns
Columns(hd) ==
  [nameCol |-> findIndexByNames(hd, nameCandidates),
   emailCol |-> findIndexByNames(hd, emailCandidates),
   folderIdCol |-> IndexOf(hd, hFolderId),
   isSharedCol |-> IndexOf(hd, hIsShared),
   isFolderExistsCol |-> IndexOf(hd, hIsFolderExists),
   lastLogCol |-> IndexOf(hd, hLastLog)]

\* toCol: 0-based column index -> A1 column letters
RECURSIVE ToColFrom(_, _)
ToColFrom(n, s) ==
  IF n > 0 THEN ToColFrom((n - 1) \div 26, <<65 + ((n - 1) % 26)>> \o s) ELSE s

toCol(index) == ToColFrom(index + 1, <<>>)

\* the column an A1 range names, 0-based, as the Sheets API resolves it
RECURSIVE A1From(_, _)
A1From(n, s) == IF s = <<>> THEN n ELSE A1From(n * 26 + (Head(s) - 64), Tail(s))

ColumnOfA1(letters) == A1From(0, letters) - 1

\* row[col] || ''
CellAt(row, col) == IF col + 1 \in 1..Len(row) THEN row[col + 1] ELSE Empty

\* values.slice(1).map(...): the participants read from the sheet
Participants(sh, hd) ==
  LET c == Columns(hd)
  IN  [i \in 1..Len(sh) |->
         [rowIndex |-> i + 1,
          nama |-> CellAt(sh[i], c.nameCol),
          email |-> CellAt(sh[i], c.emailCol),
          folderId |-> CellAt(sh[i], c.folderIdCol),
          isShared |-> CellAt(sh[i], c.isSharedCol)]]

\* sheets.spreadsheets.values.update of one cell, when it succeeds
ApplyWrite(sh, wr) ==
  LET r == wr.row - 1
      c == ColumnOfA1(wr.col) + 1
  IN  IF r \in 1..Len(sh) /\ c \in 1..Len(sh[r])
      THEN [sh EXCEPT ![r][c] = wr.val]
      ELSE sh

\* const extras = ['FolderId', 'isShared', 'isFolderExists', 'LastLog']
extras == <<hFolderId, hIsShared, hIsFolderExists, hLastLog>>

\* extras.filter(h => !headers.includes(h))
MissingExtras(headers) ==
  LET Absent(h) == IndexOf(headers, h) = -1 IN FilterSeq(extras, Absent)

\* a start on the last existing header cell
StartColOnLast(headers) == toCol(Len(headers) - 1)

\* const startCol = toCol(headers.length)
StartCol(headers) == toCol(Len(headers))

\* values.update of row 1 from startCol on: the header row afterwards
HeaderWrite(headers, startCol, values) ==
  LET first == ColumnOfA1(startCol)
      width == IF first + Len(values) > Len(headers)
               THEN first + Len(values) ELSE Len(headers)
  IN  [c \in 1..width |->
         IF c > first /\ c <= first + Len(values) THEN values[c - first]
         ELSE IF c <= Len(headers) THEN headers[c] ELSE Empty]

\* a test that wants both columns gone
ColumnsMissingBoth(nameCol, emailCol) == nameCol = -1 /\ emailCol = -1

\* headers.length === 0
HeaderMissing(headers) == Len(headers) = 0

\* nameCol === -1 || emailCol === -1
ColumnsMissing(nameCol, emailCol) == nameCol = -1 \/ emailCol = -1

\* values.length <= 1, values being the header row and the data rows
NoRows(sh) == Len(sh) + 1 <= 1

\* getSpreadsheetDataFlexible: null (ok = FALSE) or the participants, with the
\* header row it leaves behind and the header cells it wrote
ReadSheet(hd, sh) ==
  LET c == Columns(hd)
      none == [ok |-> FALSE, headers |-> hd, missing |-> <<>>, participants |-> <<>>]
  IN  IF HeaderMissing(hd) THEN none
      ELSE IF ColumnsMissing(c.nameCol, c.emailCol) THEN none
      ELSE LET missing == MissingExtras(hd)
               after == IF missing = <<>> THEN hd
                        ELSE HeaderWrite(hd, StartCol(hd), missing)
           IN  IF NoRows(sh)
               THEN [none EXCEPT !.headers = after, !.missing = missing]
               ELSE [ok |-> TRUE, headers |-> after, missing |-> missing,
                     participants |-> Participants(sh, after)]

(***************************************************************************)
(* processParticipants: normalisation, filters, shard, batch               *)
(***************************************************************************)
\* a normalisation that keeps the case of the email
NormalizeKeepCase(p) == [p EXCEPT !.nama = Trim(p.nama), !.email = Trim(p.email)]

\* nama trimmed, email trimmed and lower-cased
NormalizeOne(p) == [p EXCEPT !.nama = Trim(p.nama), !.email = ToLower(Trim(p.email))]

HasNameAndEmail(p) == p.nama # Empty /\ p.email # Empty

Normalized(ps) ==
  FilterSeq([i \in 1..Len(ps) |-> NormalizeOne(ps[i])], HasNameAndEmail)

\* a comparison with 'true' that minds the case
IsTrueExact(cell) == cell = sTrueLower

\* cell.toLowerCase() === 'true', the test of the filter and of the record loop
IsTrue(cell) == ToLower(cell) = sTrueLower

\* String(p.isShared || '').toLowerCase() !== 'true'
NotYetShared(p) == ~IsTrue(p.isShared)

\* shard key: FolderId when present, else the lower-cased name
ShardKey(p) == IF p.folderId # Empty THEN p.folderId ELSE ToLower(p.nama)

AssignedShard(p, total) == HashRem(hashKey(ShardKey(p)), total)

\* the shard test taken 1-based, as the console line prints the shard
OwnsRecordOneBased(p, total, index) == AssignedShard(p, total) = index + 1

\* (h % this.shardTotal) === this.shardIndex
OwnsRecord(p, total, index) == AssignedShard(p, total) = index

ShardFiltered(ps, total, index) ==
  IF total > 0
  THEN LET Mine(p) == OwnsRecord(p, total, index) IN FilterSeq(ps, Mine)
  ELSE ps

\* the working batch of one pass
WorkingParticipants(ps, total, index, max) ==
  SliceTo(ShardFiltered(FilterSeq(Normalized(ps), NotYetShared), total, index), max)

(***************************************************************************)
(* Drive, as the pipeline sees it                                          *)
(***************************************************************************)
\* folders under the parent scope: "A" has id "2", "B" has id "1"
DriveFolders == {[id |-> <<50>>, name |-> <<65>>], [id |-> <<49>>, name |-> <<66>>]}

MatchingFolders(nama) == {f \in DriveFolders : ToLower(f.name) = ToLower(nama)}

\* what findFolderByName can return for a name: the id of an exact
\* case-insensitive match, or null (no match, or the listings failed)
FindOutcomes(nama) ==
  IF nama = Empty THEN {Empty} ELSE {f.id : f \in MatchingFolders(nama)} \cup {Empty}

\* hasPermission that never reports an existing entry
PermissionMatchNever(ps, fileId, email, role) == FALSE

\* permissions.some(p => p.emailAddress && lower(p.emailAddress) === lower(email) && p.role === role)
PermissionMatch(ps, fileId, email, role) ==
  \E p \in ps : /\ p.fileId = fileId
                /\ p.emailAddress # Empty
                /\ ToLower(p.emailAddress) = ToLower(email)
                /\ p.role = role

Count(f, k) == IF k \in DOMAIN f THEN f[k] ELSE 0

Inc(f, k) == [x \in (DOMAIN f) \cup {k} |-> IF x = k THEN Count(f, k) + 1 ELSE f[x]]

NoCounts == [x \in {} |-> 0]

Log(text) == tTs \o text

ColFor(col, fallback) == IF col # -1 THEN toCol(col) ELSE fallback

(***************************************************************************)
(* State                                                                   *)
(***************************************************************************)
Workers == {1, 2}

VARIABLES
  header,      \* the sheet's header row
  sheet,       \* the data rows
  sheet0,      \* the data rows as they were before any pass (history)
  header0,     \* the header row as it was before any pass (history)
  perms,       \* Drive: the access entries, [fileId, emailAddress, role]
  dryRun,      \* config.get('dryRun')
  maxPerRun,   \* MAX_PER_RUN / config maxPerRun
  shard,       \* per worker: [total |-> SHARD_TOTAL, index |-> SHARD_INDEX]
  budget,      \* provider errors and failed writes the run may still meet
  pc,          \* per worker: where its pass stands
  work,        \* per worker: workingParticipants of the pass
  idx,         \* per worker: position in the record loop (1-based)
  seen,        \* per worker: the duplicate-detection set
  stats,       \* per worker: { total, done, skipped, errors }
  folder,      \* per worker: folderId of the record in hand
  writes,      \* per worker: the updateCell calls the record still has to make
  cont,        \* per worker: what follows those calls
  passes,      \* per worker: passes started
  readAt,      \* per worker: the participants as read at the start of the pass (history)
  grantCalls,  \* per worker: rows permissions.create was called for in the pass (history)
  touched,     \* per worker: rows written to or granted in the pass (history)
  creates,     \* successful permissions.create per <<fileId, email>> (history)
  failOpens,   \* hasPermission calls per <<fileId, email>> whose listing failed (history)
  trail        \* per worker: what the pass did, in order, [row, ev, col, val] (history)

\* the pipeline's own variables; dryRun and budget are read by the other parts too
pipeVars ==
  <<header, sheet, sheet0, header0, perms, maxPerRun, shard, pc, work, idx, seen, stats,
    folder, writes, cont, passes, readAt, grantCalls, touched, creates, failOpens,
    trail>>

VARIABLES
  rop,         \* retry loop: the operation, "search" | "list" | "grant"
  rpc,         \* retry loop: "begin" | "call" | "sleep" | "done" ("off": not running)
  attempt,     \* retry loop: the attempt counter of the loop
  calls,       \* retry loop: calls made to the provider (history)
  sleeps,      \* retry loop: the backoff sleeps made, in ms (history)
  answer,      \* retry loop: the provider's answer to the last call
  thrown,      \* retry loop: the error the loop threw, as wrapError left it
  outcome      \* retry loop: what the caller of the operation got

retryVars == <<rop, rpc, attempt, calls, sleeps, answer, thrown, outcome>>

VARIABLES
  tree,        \* scoped search: the folders under the parent scope
  queue,       \* scoped search: the BFS queue of { id, depth }
  bpc,         \* scoped search: "run" | "done" ("off": not running)
  found,       \* scoped search: the id returned, Empty for null
  compared,    \* scoped search: folders whose name was compared (history)
  requeued,    \* scoped search: listings answered with a rate-limit error (history)
  abandoned    \* scoped search: listings answered with another error (history)

VARIABLE
  stuck        \* BFS: folders whose listing the provider answers with a rate limit every time

bfsVars == <<tree, queue, bpc, found, compared, requeued, abandoned, stuck>>

VARIABLES
  throttleMs,     \* config.get('throttleMs')
  now,            \* what Date.now() returns, in ms
  lastApiCallAt,  \* this.lastApiCallAt
  tpc,            \* "off", "idle", "sleeping" (awaiting sleep in throttle), "granted"
  wakeAt,         \* when the pending sleep of throttle() is due
  acquired,       \* Date.now() at each return of throttle(), in order
  driveCalls,     \* Date.now() at the start of each Drive call, in order
  outbound        \* every call to a Google API: [api, at], in order

clockVars ==
  <<throttleMs, now, lastApiCallAt, tpc, wakeAt, acquired, driveCalls, outbound>>

VARIABLES
  lockFile,    \* /tmp/certificate-sharing-monitor.lock: 0 when absent, else the pid in it
  mpc,         \* per monitor: "off", "start", "read", "probe", "write", "running", "exited"
  seenPid,     \* per monitor: the pid it read from the lock file
  hooked       \* per monitor: its cleanup handlers are registered

VARIABLES
  spc,         \* launcher: "off", "lock", "count", "launch", "wait", "exited"
  listeners,   \* launcher: per signal, the handlers process.on registered, in order
  onExit,      \* launcher: process.on('exit', cleanup) is registered
  shards,      \* launcher: the number of workers asked for
  spawned,     \* launcher: the workers pushed on `children`
  alive,       \* the workers still running
  termed,      \* the workers c.kill('SIGTERM') was called on (history)
  caught       \* the signal the launcher received, "none" before any

sigVars == <<spc, listeners, onExit, shards, spawned, alive, termed, caught>>

lockVars == <<lockFile, mpc, seenPid, hooked, sigVars>>

vars == <<dryRun, budget, pipeVars, retryVars, bfsVars, clockVars, lockVars>>

ZeroStats == [total |-> 0, done |-> 0, skipped |-> 0, errors |-> 0]

\* a data row of the grid from <<name, email, FolderId, isShared>>
MakeRow(hd, t) ==
  [c \in 1..GridCols |->
     IF c > Len(hd) THEN Empty
     ELSE IF hd[c] = hNama THEN t[1]
     ELSE IF hd[c] = hEmail THEN t[2]
     ELSE IF hd[c] = hFolderId THEN t[3]
     ELSE IF hd[c] = hIsShared THEN t[4]
     ELSE Empty]

\* rows the single-worker runs start from
PipeRows ==
  { <<<<65>>, <<65, 64>>, Empty, Empty>>,         \* "A", "A@"
    <<<<65>>, <<97, 64>>, Empty, sTRUE>>,         \* already shared, as the pipeline writes it
    <<<<66>>, <<98, 64>>, Empty, sTrueLower>>,    \* already shared, lower case
    <<<<65>>, <<97, 64>>, <<50>>, Empty>> }       \* "A" with its FolderId cached

\* rows of a mixed batch: no folder, no '@', white space and capitals
BatchRows ==
  { <<<<67>>, <<99, 64>>, Empty, Empty>>,         \* "C", "c@": no folder has this name
    <<<<65>>, <<97>>, Empty, Empty>>,             \* "A", "a": no '@'
    <<<<32, 66>>, <<66, 64, 32>>, Empty, Empty>> } \* " B", "B@ "

\* rows with a FolderId cell: another folder's id, an id under a name that
\* has no folder, and a row without one
CachedRows ==
  { <<<<65>>, <<97, 64>>, <<49>>, Empty>>,        \* "A", "a@", FolderId "1"
    <<<<67>>, <<99, 64>>, <<50>>, Empty>>,        \* "C", "c@", FolderId "2"
    <<<<66>>, <<98, 64>>, Empty, Empty>> }        \* "B", "b@"

\* rows the two-worker runs start from
WorkerRows ==
  { <<<<65>>, <<97, 64>>, Empty, Empty>>,
    <<<<66>>, <<98, 64>>, Empty, Empty>>,
    <<<<65>>, <<97, 64>>, <<50>>, Empty>> }

InitialPerms ==
  { {}, {[fileId |-> <<50>>, emailAddress |-> <<65, 64>>, role |-> roleReader]} }

InitWorkerState(active, injected) ==
  /\ budget = injected
  /\ pc = [w \in Workers |-> IF w \in active THEN "idle" ELSE "off"]
  /\ work = [w \in Workers |-> <<>>]
  /\ idx = [w \in Workers |-> 1]
  /\ seen = [w \in Workers |-> {}]
  /\ stats = [w \in Workers |-> ZeroStats]
  /\ folder = [w \in Workers |-> Empty]
  /\ writes = [w \in Workers |-> <<>>]
  /\ cont = [w \in Workers |-> "next"]
  /\ passes = [w \in Workers |-> 0]
  /\ readAt = [w \in Workers |-> <<>>]
  /\ grantCalls = [w \in Workers |-> {}]
  /\ touched = [w \in Workers |-> {}]
  /\ creates = NoCounts
  /\ failOpens = NoCounts
  /\ trail = [w \in Workers |-> <<>>]

\* one worker, index.js run alone: no sharding, production mode
InitPipe ==
  /\ header = Layout6
  /\ \E rows \in [1..NRows -> PipeRows] :
       sheet = [i \in 1..NRows |-> MakeRow(header, rows[i])]
  /\ sheet0 = sheet
  /\ header0 = header
  /\ perms \in InitialPerms
  /\ dryRun = FALSE
  /\ maxPerRun = NRows
  /\ shard = [w \in Workers |-> [total |-> 0, index |-> 0]]
  /\ InitWorkerState({1}, MaxFaults)

\* one worker in simulation mode (dryRun)
InitDryRun ==
  /\ header = Layout6
  /\ \E rows \in [1..NRows -> PipeRows] :
       sheet = [i \in 1..NRows |-> MakeRow(header, rows[i])]
  /\ sheet0 = sheet
  /\ header0 = header
  /\ perms \in InitialPerms
  /\ dryRun = TRUE
  /\ maxPerRun = NRows
  /\ shard = [w \in Workers |-> [total |-> 0, index |-> 0]]
  /\ InitWorkerState({1}, MaxFaults)

\* one worker on a mixed batch, production mode
InitBatch ==
  /\ header = Layout6
  /\ \E rows \in [1..NRows -> BatchRows] :
       sheet = [i \in 1..NRows |-> MakeRow(header, rows[i])]
  /\ sheet0 = sheet
  /\ header0 = header
  /\ perms = {}
  /\ dryRun = FALSE
  /\ maxPerRun = NRows
  /\ shard = [w \in Workers |-> [total |-> 0, index |-> 0]]
  /\ InitWorkerState({1}, MaxFaults)

\* header rows a sheet may come with: none, no name or email column, the
\* two required columns alone, one of the extras already there, all of them
SchemaHeaders ==
  { <<>>, <<hNo>>, <<hNama>>, <<hNo, hEmail>>, <<hNama, hEmail>>,
    <<hNama, hEmail, hIsShared>>, Layout7 }

SchemaRows ==
  { <<<<65>>, <<97, 64>>, Empty, Empty>>,          \* "A", "a@"
    <<<<32, 66>>, <<66, 64, 32>>, Empty, Empty>> } \* " B", "B@ "

\* one worker on a sheet as it is found: any of the headers, with or without rows
InitSchema ==
  /\ header \in SchemaHeaders
  /\ \E n \in {0, NRows} : \E rows \in [1..n -> SchemaRows] :
       sheet = [i \in 1..n |-> MakeRow(header, rows[i])]
  /\ sheet0 = sheet
  /\ header0 = header
  /\ perms = {}
  /\ dryRun = FALSE
  /\ maxPerRun \in {1, NRows}
  /\ \E total \in {0, 2} : \E index \in 0..(IF total = 0 THEN 0 ELSE total - 1) :
       shard = [w \in Workers |-> [total |-> total, index |-> index]]
  /\ InitWorkerState({1}, 0)

\* one worker in loop mode, production mode, a provider that never fails
InitLoop ==
  /\ header = Layout6
  /\ \E rows \in [1..NRows -> BatchRows] :
       sheet = [i \in 1..NRows |-> MakeRow(header, rows[i])]
  /\ sheet0 = sheet
  /\ header0 = header
  /\ perms = {}
  /\ dryRun = FALSE
  /\ maxPerRun \in 1..NRows
  /\ shard = [w \in Workers |-> [total |-> 0, index |-> 0]]
  /\ InitWorkerState({1}, 0)

\* one worker started in simulation mode, no grant at the provider, a provider
\* that never fails
InitRerun ==
  /\ header = Layout6
  /\ \E rows \in [1..NRows -> BatchRows] :
       sheet = [i \in 1..NRows |-> MakeRow(header, rows[i])]
  /\ sheet0 = sheet
  /\ header0 = header
  /\ perms = {}
  /\ dryRun = TRUE
  /\ maxPerRun = NRows
  /\ shard = [w \in Workers |-> [total |-> 0, index |-> 0]]
  /\ InitWorkerState({1}, 0)

\* one worker on rows with cached folder ids, production mode or simulation
InitCached ==
  /\ header = Layout6
  /\ \E rows \in [1..NRows -> CachedRows] :
       sheet = [i \in 1..NRows |-> MakeRow(header, rows[i])]
  /\ sheet0 = sheet
  /\ header0 = header
  /\ perms \in InitialPerms
  /\ dryRun \in BOOLEAN
  /\ maxPerRun = NRows
  /\ shard = [w \in Workers |-> [total |-> 0, index |-> 0]]
  /\ InitWorkerState({1}, 1)

\* two workers launched by the monitor: runWorker(i, shards) for i = 0, 1
InitWorkers ==
  /\ header = Layout6
  /\ \E rows \in [1..NRows -> WorkerRows] :
       sheet = [i \in 1..NRows |-> MakeRow(header, rows[i])]
  /\ sheet0 = sheet
  /\ header0 = header
  /\ perms = {}
  /\ dryRun = FALSE
  /\ maxPerRun = NRows
  /\ shard = [w \in Workers |-> [total |-> Cardinality(Workers), index |-> w - 1]]
  /\ InitWorkerState(Workers, 0)

(***************************************************************************)
(* One pass of a worker: run() reads the sheet, processParticipants        *)
(* drives the batch.  Each action is one stretch of code between awaits.   *)
(***************************************************************************)
\* getSpreadsheetDataFlexible and the head of processParticipants; started
\* is the number of passes counted afterwards
BeginPass(w, started) ==
  /\ UNCHANGED <<retryVars, bfsVars, clockVars, lockVars>>
  /\ pc[w] = "idle"
  /\ \E rd \in {ReadSheet(header, sheet)} :
       /\ header' = rd.headers
       /\ readAt' = [readAt EXCEPT ![w] = rd.participants]
       /\ work' = [work EXCEPT ![w] =
            IF rd.ok
            THEN WorkingParticipants(rd.participants, shard[w].total, shard[w].index,
                                     maxPerRun)
            ELSE <<>>]
       /\ trail' = [trail EXCEPT ![w] =
            (IF rd.missing = <<>> THEN <<>>
             ELSE << [row |-> 1, ev |-> "header", col |-> StartCol(header),
                      val |-> rd.missing] >>) \o
            (IF rd.ok THEN <<>>
             ELSE << [row |-> 0, ev |-> "nodata", col |-> Empty, val |-> Empty] >>)]
       /\ pc' = [pc EXCEPT ![w] = IF rd.ok THEN "loop" ELSE "idle"]
  /\ idx' = [idx EXCEPT ![w] = 1]
  /\ seen' = [seen EXCEPT ![w] = {}]
  /\ stats' = [stats EXCEPT ![w] = ZeroStats]
  /\ folder' = [folder EXCEPT ![w] = Empty]
  /\ writes' = [writes EXCEPT ![w] = <<>>]
  /\ cont' = [cont EXCEPT ![w] = "next"]
  /\ passes' = [passes EXCEPT ![w] = started]
  /\ grantCalls' = [grantCalls EXCEPT ![w] = {}]
  /\ touched' = [touched EXCEPT ![w] = {}]
  /\ UNCHANGED <<sheet, sheet0, header0, perms, dryRun, maxPerRun, shard, budget,
                 creates, failOpens>>

\* a pass of run(): the single pass, or one of the first passes of loop mode
StartPass(w) == passes[w] < MaxPasses /\ BeginPass(w, passes[w] + 1)

\* loop mode, `while (true)`: one more pass; passes are counted up to MaxPasses
LoopPass(w) == passes[w] = MaxPasses /\ BeginPass(w, MaxPasses)

\* one step of the pass, as the trail keeps it
Event(row, ev) == [row |-> row, ev |-> ev, col |-> Empty, val |-> Empty]

WriteEvent(wr) == [row |-> wr.row, ev |-> "write", col |-> wr.col, val |-> wr.val]

Note(w, e) == [trail EXCEPT ![w] = Append(@, e)]

\* participant.isShared && participant.isShared.toLowerCase() === 'true'
AlreadyShared(p) == p.isShared # Empty /\ IsTrue(p.isShared)

CellWrite(p, col, val) == [row |-> p.rowIndex, col |-> col, val |-> val]

\* an email test that lets every email pass
IsInvalidEmailNever(email) == FALSE

\* !email.includes('@')
IsInvalidEmail(email) == ~Includes(email, tAt)

\* a key that tells the rows apart
DedupKeyPerRow(p) == ToLower(p.nama) \o tBar \o p.email \o tBar \o <<48 + p.rowIndex>>

\* `${nama.toLowerCase()}|${email}`
DedupKey(p) == ToLower(p.nama) \o tBar \o p.email

\* a loop that stops at the first record that ends
ContinueAtEnd(i, len) == len + 1

\* continue / the end of the loop body: on to the next record
ContinueAt(i, len) == i + 1

\* the head of the record loop, up to the first await
\* a record loop that never trusts the FolderId cell
CachedFolderIdNone(p) == Empty

\* let folderId = participant.folderId
CachedFolderId(p) == p.folderId

Validate(w) ==
  /\ UNCHANGED <<retryVars, bfsVars, clockVars, lockVars>>
  /\ pc[w] = "loop"
  /\ idx[w] <= Len(work[w])
  /\ LET p == work[w][idx[w]]
         c == Columns(header)
         key == DedupKey(p)
         invalid == IsInvalidEmail(p.email)
         dup == ~invalid /\ key \in seen[w]
         shared == ~invalid /\ ~dup /\ AlreadyShared(p)
         skip == invalid \/ dup \/ shared
         cached == ~skip /\ CachedFolderId(p) # Empty
         ws == IF invalid
               THEN << CellWrite(p, ColFor(c.isSharedCol, <<68>>), sFALSE),
                       CellWrite(p, ColFor(c.lastLogCol, <<70>>),
                                 Log(tSkipInvalid \o p.email \o tQuote)) >>
               ELSE IF dup
               THEN << CellWrite(p, <<70>>, Log(tSkipDup)) >>
               ELSE IF shared
               THEN << CellWrite(p, ColFor(c.lastLogCol, <<70>>), Log(tSkipShared)) >>
               ELSE IF cached
               THEN << CellWrite(p, ColFor(c.isFolderExistsCol, <<69>>), sTRUE) >>
               ELSE <<>>
     IN  /\ stats' = [stats EXCEPT ![w].total = @ + 1,
                                   ![w].skipped = @ + (IF skip THEN 1 ELSE 0)]
         /\ seen' = [seen EXCEPT ![w] = IF invalid \/ dup THEN @ ELSE @ \cup {key}]
         /\ writes' = [writes EXCEPT ![w] = ws]
         /\ cont' = [cont EXCEPT ![w] = IF skip THEN "next" ELSE "check"]
         /\ folder' = [folder EXCEPT ![w] = IF cached THEN CachedFolderId(p) ELSE Empty]
         /\ pc' = [pc EXCEPT ![w] = IF ws # <<>> THEN "write" ELSE "find"]
         /\ trail' = IF invalid THEN Note(w, Event(p.rowIndex, "invalid"))
                      ELSE IF dup THEN Note(w, Event(p.rowIndex, "duplicate"))
                      ELSE IF shared THEN Note(w, Event(p.rowIndex, "shared"))
                      ELSE trail
  /\ UNCHANGED <<header, sheet, sheet0, header0, perms, dryRun, maxPerRun, shard, budget, work,
                 idx, passes, readAt, grantCalls, touched, creates, failOpens>>

\* a folder that is not found counted as no error
FindErrorsNone(res) == 0

\* a folder that is not found counted twice
FindErrorsTwice(res) == IF res = Empty THEN 2 ELSE 0

\* if (!folderId) { stats.errors++; ... }
FindErrors(res) == IF res = Empty THEN 1 ELSE 0

\* the not-found write-backs with isShared written as well
NotFoundWritesShared(p, c) ==
  << CellWrite(p, ColFor(c.isFolderExistsCol, <<69>>), sFALSE),
     CellWrite(p, ColFor(c.isSharedCol, <<68>>), sFALSE),
     CellWrite(p, ColFor(c.lastLogCol, <<70>>), Log(tNotFound \o p.nama \o tQuote)) >>

\* the write-backs of a folder that was not found
NotFoundWrites(p, c) ==
  << CellWrite(p, ColFor(c.isFolderExistsCol, <<69>>), sFALSE),
     CellWrite(p, ColFor(c.lastLogCol, <<70>>), Log(tNotFound \o p.nama \o tQuote)) >>

\* folderId = await this.findFolderByName(nama, parentFolderId), and what follows
FindFolder(w) ==
  /\ UNCHANGED <<retryVars, bfsVars, clockVars, lockVars>>
  /\ pc[w] = "find"
  /\ LET p == work[w][idx[w]]
         c == Columns(header)
     IN  \E res \in FindOutcomes(p.nama) :
           LET failed == res = Empty /\ MatchingFolders(p.nama) # {}
           IN  /\ failed => budget > 0
               /\ budget' = budget - (IF failed THEN 1 ELSE 0)
               /\ folder' = [folder EXCEPT ![w] = res]
               /\ stats' = [stats EXCEPT ![w].errors = @ + FindErrors(res)]
               /\ trail' = Note(w, Event(p.rowIndex,
                                          IF res = Empty THEN "notfound" ELSE "found"))
               /\ cont' = [cont EXCEPT ![w] = IF res = Empty THEN "next" ELSE "check"]
               /\ writes' = [writes EXCEPT ![w] =
                    IF res = Empty
                    THEN NotFoundWrites(p, c)
                    ELSE << CellWrite(p, ColFor(c.isFolderExistsCol, <<69>>), sTRUE),
                            CellWrite(p, ColFor(c.folderIdCol, <<67>>), res) >>]
  /\ pc' = [pc EXCEPT ![w] = "write"]
  /\ UNCHANGED <<header, sheet, sheet0, header0, perms, dryRun, maxPerRun, shard, work, idx,
                 seen, passes, readAt, grantCalls, touched, creates, failOpens>>

\* one updateCell call: the write lands, or fails with only a console warning
UpdateCell(w) ==
  /\ UNCHANGED <<retryVars, bfsVars, clockVars, lockVars>>
  /\ pc[w] = "write"
  /\ \E ok \in BOOLEAN :
       /\ ok \/ budget > 0
       /\ budget' = budget - (IF ok THEN 0 ELSE 1)
       /\ sheet' = IF ok THEN ApplyWrite(sheet, Head(writes[w])) ELSE sheet
  /\ touched' = [touched EXCEPT ![w] = @ \cup {Head(writes[w]).row}]
  /\ trail' = Note(w, WriteEvent(Head(writes[w])))
  /\ writes' = [writes EXCEPT ![w] = Tail(@)]
  /\ IF Tail(writes[w]) # <<>>
     THEN UNCHANGED <<pc, idx>>
     ELSE IF cont[w] = "next"
          THEN /\ pc' = [pc EXCEPT ![w] = "loop"]
               /\ idx' = [idx EXCEPT ![w] = ContinueAt(@, Len(work[w]))]
          ELSE /\ pc' = [pc EXCEPT ![w] = "check"]
               /\ UNCHANGED idx
  /\ UNCHANGED <<header, sheet0, header0, perms, dryRun, maxPerRun, shard, work, seen, stats,
                 folder, cont, passes, readAt, grantCalls, creates, failOpens>>

\* a check that reads a failed listing as an existing entry
CheckResultFailClosed(ok, match) == ~ok \/ match

\* the value hasPermission returns: the catch block turns a failed listing into false
CheckResult(ok, match) == ok /\ match

\* hasPermission(folderId, email, role): false when the listing fails
HasPermission(w) ==
  /\ UNCHANGED <<retryVars, bfsVars, clockVars, lockVars>>
  /\ pc[w] = "check"
  /\ LET p == work[w][idx[w]]
         c == Columns(header)
     IN  \E ok \in BOOLEAN :
           LET has == CheckResult(ok, PermissionMatch(perms, folder[w], p.email, roleReader))
           IN  /\ ok \/ budget > 0
               /\ budget' = budget - (IF ok THEN 0 ELSE 1)
               /\ failOpens' = IF ok THEN failOpens
                               ELSE Inc(failOpens, <<folder[w], p.email>>)
               /\ stats' = [stats EXCEPT ![w].skipped = @ + (IF has THEN 1 ELSE 0)]
               /\ writes' = [writes EXCEPT ![w] =
                    IF has
                    THEN << CellWrite(p, ColFor(c.isSharedCol, <<68>>), sTRUE),
                            CellWrite(p, ColFor(c.lastLogCol, <<70>>),
                                      Log(tSkipHas \o roleReader \o tAccess)) >>
                    ELSE <<>>]
               /\ cont' = [cont EXCEPT ![w] = "next"]
               /\ pc' = [pc EXCEPT ![w] = IF has THEN "write" ELSE "grant"]
               /\ trail' = Note(w, Event(p.rowIndex,
                                          IF ~ok THEN "checkfailed"
                                          ELSE IF has THEN "has" ELSE "hasnot"))
  /\ UNCHANGED <<header, sheet, sheet0, header0, perms, dryRun, maxPerRun, shard, work, idx,
                 seen, folder, passes, readAt, grantCalls, touched, creates>>

\* the line written to LastLog by the catch block
ErrorLog(op, fileId, email, role) ==
  Log(tError \o tOp \o op \o tCtx \o fileId \o tComma \o email \o tComma \o role)

\* a grant that reaches the provider in every mode
IssuesCreateAlways(dry) == TRUE

\* if (dryRun) return { status: 'DRY_RUN' }: only production mode reaches permissions.create
IssuesCreate(dry) == ~dry

\* write-backs of the catch block that mark the row as shared
ErrorWritesShared(p, c, fileId) ==
  << CellWrite(p, ColFor(c.isSharedCol, <<68>>), sTRUE),
     CellWrite(p, ColFor(c.lastLogCol, <<70>>),
               ErrorLog(opPermCreate, fileId, p.email, roleReader)) >>

\* the write-backs of the catch block
ErrorWrites(p, c, fileId) ==
  << CellWrite(p, ColFor(c.isSharedCol, <<68>>), sFALSE),
     CellWrite(p, ColFor(c.lastLogCol, <<70>>),
               ErrorLog(opPermCreate, fileId, p.email, roleReader)) >>

\* grantPermission(folderId, email), and the write-backs of either outcome
GrantPermission(w) ==
  /\ UNCHANGED <<retryVars, bfsVars, clockVars, lockVars>>
  /\ pc[w] = "grant"
  /\ LET p == work[w][idx[w]]
         c == Columns(header)
         pair == <<folder[w], p.email>>
     IN  \E ok \in BOOLEAN :
           /\ ~IssuesCreate(dryRun) => ok
           /\ ok \/ budget > 0
           /\ budget' = budget - (IF ok THEN 0 ELSE 1)
           /\ grantCalls' = [grantCalls EXCEPT ![w] =
                IF IssuesCreate(dryRun) THEN @ \cup {p.rowIndex} ELSE @]
           /\ touched' = [touched EXCEPT ![w] =
                IF IssuesCreate(dryRun) THEN @ \cup {p.rowIndex} ELSE @]
           /\ trail' = Note(w, Event(p.rowIndex,
                                      IF ~ok THEN "raised"
                                      ELSE IF IssuesCreate(dryRun) THEN "granted"
                                      ELSE "dryrun"))
           /\ perms' = IF ok /\ IssuesCreate(dryRun)
                       THEN perms \cup {[fileId |-> folder[w], emailAddress |-> p.email,
                                         role |-> roleReader]}
                       ELSE perms
           /\ creates' = IF ok /\ IssuesCreate(dryRun) THEN Inc(creates, pair) ELSE creates
           /\ stats' = [stats EXCEPT ![w].done = @ + (IF ok THEN 1 ELSE 0),
                                     ![w].errors = @ + (IF ok THEN 0 ELSE 1)]
           /\ writes' = [writes EXCEPT ![w] =
                IF ok
                THEN << CellWrite(p, ColFor(c.isSharedCol, <<68>>), sTRUE),
                        CellWrite(p, ColFor(c.lastLogCol, <<70>>),
                                  Log((IF dryRun THEN tDryRun ELSE tGranted) \o tSp
                                      \o roleReader \o tArrow \o p.email)) >>
                ELSE ErrorWrites(p, c, folder[w])]
  /\ cont' = [cont EXCEPT ![w] = "next"]
  /\ pc' = [pc EXCEPT ![w] = "write"]
  /\ UNCHANGED <<header, sheet, sheet0, header0, dryRun, maxPerRun, shard, work, idx, seen,
                 folder, passes, readAt, failOpens>>

\* the batch is exhausted: the summary is printed and the pass returns
EndPass(w) ==
  /\ UNCHANGED <<retryVars, bfsVars, clockVars, lockVars>>
  /\ pc[w] = "loop"
  /\ idx[w] > Len(work[w])
  /\ pc' = [pc EXCEPT ![w] = "idle"]
  /\ UNCHANGED <<header, sheet, sheet0, header0, perms, dryRun, maxPerRun, shard, budget, work,
                 idx, seen, stats, folder, writes, cont, passes, readAt, grantCalls,
                 touched, creates, failOpens, trail>>

NextPipe ==
  \E w \in Workers :
    \/ StartPass(w)
    \/ Validate(w)
    \/ FindFolder(w)
    \/ UpdateCell(w)
    \/ HasPermission(w)
    \/ GrantPermission(w)
    \/ EndPass(w)

\* the script started again after its first pass, this time without DRY_RUN:
\* setup() sets dryRun afresh, the sheet and the provider are as the pass
\* left them
RunInProduction(w) ==
  /\ UNCHANGED <<retryVars, bfsVars, clockVars, lockVars>>
  /\ pc[w] = "idle"
  /\ passes[w] = 1
  /\ dryRun
  /\ dryRun' = FALSE
  /\ UNCHANGED <<header, sheet, sheet0, header0, perms, maxPerRun, shard, budget, pc, work,
                 idx, seen, stats, folder, writes, cont, passes, readAt, grantCalls,
                 touched, creates, failOpens, trail>>

\* a simulated pass, then a production pass on the same sheet
NextRerun ==
  \E w \in Workers :
    \/ StartPass(w)
    \/ Validate(w)
    \/ FindFolder(w)
    \/ UpdateCell(w)
    \/ HasPermission(w)
    \/ GrantPermission(w)
    \/ EndPass(w)
    \/ RunInProduction(w)

\* loop mode without end
NextLoop ==
  \E w \in Workers :
    \/ StartPass(w)
    \/ LoopPass(w)
    \/ Validate(w)
    \/ FindFolder(w)
    \/ UpdateCell(w)
    \/ HasPermission(w)
    \/ GrantPermission(w)
    \/ EndPass(w)

\* a configuration in which no worker runs
NoPipeline ==
  /\ header = Layout6
  /\ sheet = <<>>
  /\ sheet0 = <<>>
  /\ header0 = header
  /\ perms = {}
  /\ maxPerRun = NRows
  /\ shard = [w \in Workers |-> [total |-> 0, index |-> 0]]
  /\ InitWorkerState({}, MaxFaults)

(***************************************************************************)
(* The retry loops: findFolderByName without a parent (drive.files.list),  *)
(* hasPermission (drive.permissions.list), grantPermission                 *)
(* (drive.permissions.create).  One loop runs from "begin" to "done".      *)
(***************************************************************************)
\* "mimeType='application/vnd.google-apps.folder' and name contains '"
qPrefix == <<109, 105, 109, 101, 84, 121, 112, 101, 61, 39, 97, 112, 112, 108, 105, 99, 97, 116, 105, 111, 110, 47, 118, 110, 100, 46, 103, 111, 111, 103, 108, 101, 45, 97, 112, 112, 115, 46, 102, 111, 108, 100, 101, 114, 39, 32, 97, 110, 100, 32, 110, 97, 109, 101, 32, 99, 111, 110, 116, 97, 105, 110, 115, 32, 39>>
\* "' and trashed=false"
qSuffix == <<39, 32, 97, 110, 100, 32, 116, 114, 97, 115, 104, 101, 100, 61, 102, 97, 108, 115, 101>>
\* "rateLimitExceededUnreg"
rRateUnreg == <<114, 97, 116, 101, 76, 105, 109, 105, 116, 69, 120, 99, 101, 101, 100, 101, 100, 85, 110, 114, 101, 103>>
\* "notFound"
rNotFound == <<110, 111, 116, 70, 111, 117, 110, 100>>

maxAttemptsSearch == 5
maxAttemptsList == 5
maxAttemptsGrant == 6
capMs == 60000

MaxAttemptsOf(op) ==
  CASE op = "search" -> maxAttemptsSearch
    [] op = "list" -> maxAttemptsList
    [] op = "grant" -> maxAttemptsGrant

OpName(op) ==
  CASE op = "search" -> opFilesList
    [] op = "list" -> opPermList
    [] op = "grant" -> opPermCreate

\* the errors the provider answers with: [status, first reason]
ProviderErrors ==
  { [status |-> 429, reason |-> Empty],
    [status |-> 429, reason |-> rForbidden],
    [status |-> 403, reason |-> rRate],
    [status |-> 403, reason |-> rUserRate],
    [status |-> 403, reason |-> rSharingRate],
    [status |-> 403, reason |-> rRateUnreg],
    [status |-> 403, reason |-> rForbidden],
    [status |-> 403, reason |-> rDaily],
    [status |-> 400, reason |-> rRate],
    [status |-> 404, reason |-> rNotFound],
    [status |-> 500, reason |-> Empty] }

\* every 403 taken as a rate limit
isRetryableAny403(error) == error.status = 429 \/ error.status = 403

isRetryableRateLimit(error) ==
  \/ error.status = 429
  \/ /\ error.status = 403
     /\ \/ Includes(error.reason, rRate)
        \/ Includes(error.reason, rUserRate)
        \/ Includes(error.reason, rSharingRate)

\* the retry test with the ceiling included
MayRetryInclusive(error, att, max) == isRetryableRateLimit(error) /\ att <= max

\* this.isRetryableRateLimit(err) && attempt < maxAttempts
MayRetry(error, att, max) == isRetryableRateLimit(error) /\ att < max

\* a backoff that grows linearly
BackoffLinear(att) == IF capMs < 2 * att * 1000 THEN capMs ELSE 2 * att * 1000

\* Math.min(capMs, Math.pow(2, attempt) * 1000)
BackoffBase(att) == IF capMs < (2 ^ att) * 1000 THEN capMs ELSE (2 ^ att) * 1000

\* targetName.replace(/'/g, "\\'")
RECURSIVE EscapeQuotes(_)
EscapeQuotes(s) ==
  IF s = <<>> THEN <<>>
  ELSE (IF Head(s) = 39 THEN <<92, 39>> ELSE <<Head(s)>>) \o EscapeQuotes(Tail(s))

\* the arguments of the operation under retry
RetryName == <<65>>
RetryFileId == <<50>>
RetryEmail == <<97, 64>>

ContextOf(op) ==
  IF op = "search"
  THEN [query |-> qPrefix \o EscapeQuotes(RetryName) \o qSuffix]
  ELSE [fileId |-> RetryFileId, email |-> RetryEmail, role |-> roleReader]

\* this.wrapError(op, ctx, error)
wrapError(op, ctx, error) == [op |-> op, ctx |-> ctx, error |-> error]

\* what a successful call can carry
AnswersOf(op) ==
  CASE op = "search" ->
         { <<>>,
           << [id |-> <<51>>, name |-> <<65, 66>>], [id |-> <<50>>, name |-> <<97>>] >> }
    [] op = "list" ->
         { {}, {[fileId |-> RetryFileId, emailAddress |-> <<65, 64>>, role |-> roleReader]} }
    [] op = "grant" -> { [id |-> <<57>>] }

\* what the operation returns on a successful call
ResultOf(op, data) ==
  CASE op = "search" ->
         LET Exact(f) == ToLower(f.name) = ToLower(RetryName)
             files == FilterSeq(data, Exact)
         IN  IF files # <<>> THEN files[1].id ELSE Empty
    [] op = "list" -> PermissionMatch(data, RetryFileId, RetryEmail, roleReader)
    [] op = "grant" -> data

\* what the caller gets when the loop has thrown
AfterThrow(op, err) ==
  CASE op = "search" -> [kind |-> "value", value |-> Empty]
    [] op = "list" -> [kind |-> "value", value |-> FALSE]
    [] op = "grant" -> [kind |-> "raised", error |-> err]

NoAnswer == [kind |-> "none"]

InitRetry ==
  /\ rop \in {"search", "list", "grant"}
  /\ dryRun \in BOOLEAN
  /\ rpc = "begin"
  /\ attempt = 0
  /\ calls = 0
  /\ sleeps = <<>>
  /\ answer = NoAnswer
  /\ thrown = NoAnswer
  /\ outcome = NoAnswer

NoRetry ==
  /\ rop = "none"
  /\ rpc = "off"
  /\ attempt = 0
  /\ calls = 0
  /\ sleeps = <<>>
  /\ answer = NoAnswer
  /\ thrown = NoAnswer
  /\ outcome = NoAnswer

\* the entry of the operation: grantPermission returns the sentinel in a dry run
RetryBegin ==
  /\ UNCHANGED <<dryRun, budget, pipeVars, bfsVars, clockVars, lockVars>>
  /\ rpc = "begin"
  /\ IF rop = "grant" /\ dryRun
     THEN /\ outcome' = [kind |-> "value", value |-> [status |-> tDryRun]]
          /\ rpc' = "done"
     ELSE /\ rpc' = "call"
          /\ UNCHANGED outcome
  /\ UNCHANGED <<rop, attempt, calls, sleeps, answer, thrown>>

\* await this.throttle(); the call; it succeeds and the operation returns
RetryCallOk ==
  /\ UNCHANGED <<dryRun, budget, pipeVars, bfsVars, clockVars, lockVars>>
  /\ rpc = "call"
  /\ \E data \in AnswersOf(rop) :
       /\ answer' = [kind |-> "ok", data |-> data]
       /\ outcome' = [kind |-> "value", value |-> ResultOf(rop, data)]
  /\ calls' = calls + 1
  /\ rpc' = "done"
  /\ UNCHANGED <<rop, attempt, sleeps, thrown>>

\* await this.throttle(); the call; it fails and the catch block decides
RetryCallError ==
  /\ UNCHANGED <<dryRun, budget, pipeVars, bfsVars, clockVars, lockVars>>
  /\ rpc = "call"
  /\ \E e \in ProviderErrors :
       /\ answer' = [kind |-> "error", error |-> e]
       /\ IF MayRetry(e, attempt + 1, MaxAttemptsOf(rop))
          THEN /\ rpc' = "sleep"
               /\ UNCHANGED <<thrown, outcome>>
          ELSE /\ thrown' = wrapError(OpName(rop), ContextOf(rop), e)
               /\ outcome' = AfterThrow(rop, thrown')
               /\ rpc' = "done"
  /\ calls' = calls + 1
  /\ attempt' = attempt + 1
  /\ UNCHANGED <<rop, sleeps>>

\* await this.sleep(base + jitter); continue
RetrySleep ==
  /\ UNCHANGED <<dryRun, budget, pipeVars, bfsVars, clockVars, lockVars>>
  /\ rpc = "sleep"
  /\ \E jitter \in {0, 499} : sleeps' = Append(sleeps, BackoffBase(attempt) + jitter)
  /\ rpc' = "call"
  /\ UNCHANGED <<rop, attempt, calls, answer, thrown, outcome>>

NextRetry == RetryBegin \/ RetryCallOk \/ RetryCallError \/ RetrySleep

(***************************************************************************)
(* findFolderByName with a parent: the breadth-first search.  Folders are  *)
(* numbered 1..n, 0 is the parent scope; a listing returns the children    *)
(* in the order of their numbers.                                          *)
(***************************************************************************)
\* folders of the trees searched exhaustively
NNodes == 4
maxDepth == 3

\* the name searched for, "A"; folders are named "a" or "B"
targetName == <<65>>
FolderNames == {<<97>>, <<66>>}

TreesOf(n) ==
  { [par |-> p, name |-> nm] :
      p \in {q \in [1..n -> 0..(n - 1)] : \A i \in 1..n : q[i] < i},
      nm \in [1..n -> FolderNames] }

\* two branches, a match at depth 2 under the second and one at depth 3 under the first
TwoBranchTree ==
  [par |-> <<0, 0, 1, 2, 3>>, name |-> <<<<66>>, <<66>>, <<66>>, <<97>>, <<97>>>>]

Trees == TreesOf(NNodes) \cup {TwoBranchTree}

NodesOf(t) == 1..Len(t.par)

RECURSIVE DepthOf(_, _)
DepthOf(t, i) == IF t.par[i] = 0 THEN 1 ELSE 1 + DepthOf(t, t.par[i])

\* listSubfolders(parentId), all pages
ChildrenOf(t, i) ==
  LET IsChild(j) == t.par[j] = i IN FilterSeq([j \in 1..Len(t.par) |-> j], IsChild)

IsMatch(t, j) == ToLower(t.name[j]) = ToLower(targetName)

\* children.find(f => lower(f.name) === targetLower)
FirstHit(t, children) ==
  LET Hit(j) == IsMatch(t, j)
      hits == FilterSeq(children, Hit)
  IN  IF hits # <<>> THEN <<hits[1]>> ELSE <<>>

InitBfs ==
  /\ tree \in Trees
  /\ dryRun = FALSE
  /\ queue = << [id |-> 0, depth |-> 0] >>
  /\ bpc = "run"
  /\ found = <<>>
  /\ compared = {}
  /\ requeued = 0
  /\ abandoned = 0
  /\ stuck = {}

\* a search in which the provider refuses the listing of one folder for good
InitBfsStuck ==
  /\ tree \in Trees
  /\ dryRun = FALSE
  /\ queue = << [id |-> 0, depth |-> 0] >>
  /\ bpc = "run"
  /\ found = <<>>
  /\ compared = {}
  /\ requeued = 0
  /\ abandoned = 0
  /\ stuck \in {{n} : n \in 0..1}

NoBfs ==
  /\ tree = [par |-> <<>>, name |-> <<>>]
  /\ queue = <<>>
  /\ bpc = "off"
  /\ found = <<>>
  /\ compared = {}
  /\ requeued = 0
  /\ abandoned = 0
  /\ stuck = {}

\* queue.shift(); the listing succeeds: compare, return the hit or enqueue the children
BfsList ==
  /\ UNCHANGED <<dryRun, pipeVars, retryVars, clockVars, lockVars>>
  /\ bpc = "run"
  /\ queue # <<>>
  /\ Head(queue).depth <= maxDepth => Head(queue).id \notin stuck
  /\ LET current == Head(queue)
         children == ChildrenOf(tree, current.id)
         hit == FirstHit(tree, children)
     IN  IF current.depth > maxDepth
         THEN /\ queue' = Tail(queue)
              /\ UNCHANGED <<bpc, found, compared>>
         ELSE /\ compared' = compared \cup Range(children)
              /\ IF hit # <<>>
                 THEN /\ found' = hit
                      /\ bpc' = "done"
                      /\ queue' = Tail(queue)
                 ELSE /\ queue' = Tail(queue) \o
                           (IF current.depth < maxDepth
                            THEN [k \in 1..Len(children) |->
                                    [id |-> children[k], depth |-> current.depth + 1]]
                            ELSE <<>>)
                      /\ UNCHANGED <<bpc, found>>
  /\ UNCHANGED <<tree, requeued, abandoned, budget, stuck>>

\* the listing fails with a rate-limit error: sleep(1000), queue.push(current)
BfsRateLimited ==
  /\ UNCHANGED <<dryRun, pipeVars, retryVars, clockVars, lockVars>>
  /\ bpc = "run"
  /\ queue # <<>>
  /\ Head(queue).depth <= maxDepth
  /\ budget > 0
  /\ budget' = budget - 1
  /\ queue' = Append(Tail(queue), Head(queue))
  /\ requeued' = requeued + 1
  /\ UNCHANGED <<tree, bpc, found, compared, abandoned, stuck>>

\* the listing fails with another error: the branch is skipped
BfsAbandon ==
  /\ UNCHANGED <<dryRun, pipeVars, retryVars, clockVars, lockVars>>
  /\ bpc = "run"
  /\ queue # <<>>
  /\ Head(queue).depth <= maxDepth
  /\ budget > 0
  /\ budget' = budget - 1
  /\ queue' = Tail(queue)
  /\ abandoned' = abandoned + 1
  /\ UNCHANGED <<tree, bpc, found, compared, requeued, stuck>>

\* the queue is empty: return null
BfsEnd ==
  /\ UNCHANGED <<dryRun, pipeVars, retryVars, clockVars, lockVars>>
  /\ bpc = "run"
  /\ queue = <<>>
  /\ bpc' = "done"
  /\ UNCHANGED <<tree, queue, found, compared, requeued, abandoned, budget, stuck>>

NextBfs == BfsList \/ BfsRateLimited \/ BfsAbandon \/ BfsEnd

\* the listing of a folder the provider keeps refusing: sleep(1000),
\* queue.push(current), as often as it comes up (counted modulo RequeueCap + 1)
BfsStuck ==
  /\ UNCHANGED <<dryRun, pipeVars, retryVars, clockVars, lockVars>>
  /\ bpc = "run"
  /\ queue # <<>>
  /\ Head(queue).depth <= maxDepth
  /\ Head(queue).id \in stuck
  /\ queue' = Append(Tail(queue), Head(queue))
  /\ requeued' = (requeued + 1) % (RequeueCap + 1)
  /\ UNCHANGED <<tree, bpc, found, compared, abandoned, budget, stuck>>

NextBfsStuck == BfsList \/ BfsRateLimited \/ BfsAbandon \/ BfsEnd \/ BfsStuck

(***************************************************************************)
(* throttle(): the pause in front of every Drive call.  Time is Date.now() *)
(* in milliseconds; sleep(ms) resumes when at least ms have passed.        *)
(***************************************************************************)
\* the fallback of `Number(config.get('throttleMs')) || 2500`
defaultThrottleMs == 2500

\* the largest value of Math.floor(Math.random() * 400)
maxJitter == 399

\* Date.now() when the worker starts; lastApiCallAt starts at 0
StartClock == 1000000

\* values config.get('throttleMs') is given: 0 is falsy and falls back
ThrottleChoices == {0, 1000, defaultThrottleMs}

JitterChoices == {0, maxJitter}

\* how late a timer fires
LateChoices == {0, 15}

\* time between the start of a Drive call and the next throttle(): the call
\* itself, a backoff sleep, the cell writes, the pause between participants
GapChoices == {0, 1200, 2500, 4000}

\* time a call to the Sheets API takes
SheetGapChoices == {0, 300}

\* no pause at all
MinDelayNone(cfg) == 0

\* a sleep of the jitter alone
SleepForNothing(minDelay, elapsed, jitter) == jitter

\* const minDelay = Number(config.get('throttleMs')) || 2500
MinDelay(cfg) == IF cfg # 0 THEN cfg ELSE defaultThrottleMs

\* the argument of sleep() in throttle()
SleepFor(minDelay, elapsed, jitter) == minDelay - elapsed + jitter

InitThrottle ==
  /\ throttleMs \in ThrottleChoices
  /\ dryRun = FALSE
  /\ now = StartClock
  /\ lastApiCallAt = 0
  /\ tpc = "idle"
  /\ wakeAt = 0
  /\ acquired = <<>>
  /\ driveCalls = <<>>
  /\ outbound = <<>>

NoClock ==
  /\ throttleMs = defaultThrottleMs
  /\ now = 0
  /\ lastApiCallAt = 0
  /\ tpc = "off"
  /\ wakeAt = 0
  /\ acquired = <<>>
  /\ driveCalls = <<>>
  /\ outbound = <<>>

\* throttle() up to its await: too early, so it asks for a sleep
ThrottleSleep ==
  /\ UNCHANGED <<dryRun, budget, pipeVars, retryVars, bfsVars, lockVars>>
  /\ tpc = "idle"
  /\ Len(acquired) < MaxCalls
  /\ LET minDelay == MinDelay(throttleMs)
         elapsed == now - lastApiCallAt
     IN  /\ elapsed < minDelay
         /\ \E jitter \in JitterChoices :
              wakeAt' = now + SleepFor(minDelay, elapsed, jitter)
  /\ tpc' = "sleeping"
  /\ UNCHANGED <<throttleMs, now, lastApiCallAt, acquired, driveCalls, outbound>>

\* the sleep of throttle() is over: lastApiCallAt = Date.now(), return
ThrottleWake ==
  /\ UNCHANGED <<dryRun, budget, pipeVars, retryVars, bfsVars, lockVars>>
  /\ tpc = "sleeping"
  /\ \E late \in LateChoices :
       now' = (IF wakeAt > now THEN wakeAt ELSE now) + late
  /\ lastApiCallAt' = now'
  /\ acquired' = Append(acquired, now')
  /\ tpc' = "granted"
  /\ UNCHANGED <<throttleMs, wakeAt, driveCalls, outbound>>

\* throttle() with enough time gone: lastApiCallAt = Date.now(), return at once
ThrottlePass ==
  /\ UNCHANGED <<dryRun, budget, pipeVars, retryVars, bfsVars, lockVars>>
  /\ tpc = "idle"
  /\ Len(acquired) < MaxCalls
  /\ now - lastApiCallAt >= MinDelay(throttleMs)
  /\ lastApiCallAt' = now
  /\ acquired' = Append(acquired, now)
  /\ tpc' = "granted"
  /\ UNCHANGED <<throttleMs, now, wakeAt, driveCalls, outbound>>

\* the Drive call that follows `await this.throttle()`, and what the worker
\* does until it comes to throttle() again
DriveCall ==
  /\ UNCHANGED <<dryRun, budget, pipeVars, retryVars, bfsVars, lockVars>>
  /\ tpc = "granted"
  /\ driveCalls' = Append(driveCalls, now)
  /\ outbound' = Append(outbound, [api |-> "drive", at |-> now])
  /\ \E gap \in GapChoices : now' = now + gap
  /\ tpc' = "idle"
  /\ UNCHANGED <<throttleMs, lastApiCallAt, wakeAt, acquired>>

\* the calls to the Sheets API issued so far
SheetCallsOf(issued) ==
  LET IsSheets(c) == c.api = "sheets" IN FilterSeq(issued, IsSheets)

\* sheets.spreadsheets.values.get / values.update in getSpreadsheetDataFlexible
\* and updateCell: awaited where it stands, throttle() is not called
SheetCall ==
  /\ UNCHANGED <<dryRun, budget, pipeVars, retryVars, bfsVars, lockVars>>
  /\ tpc = "idle"
  /\ Len(SheetCallsOf(outbound)) < MaxSheetCalls
  /\ outbound' = Append(outbound, [api |-> "sheets", at |-> now])
  /\ \E gap \in SheetGapChoices : now' = now + gap
  /\ UNCHANGED <<throttleMs, lastApiCallAt, tpc, wakeAt, acquired, driveCalls>>

NextThrottle ==
  ThrottleSleep \/ ThrottleWake \/ ThrottlePass \/ DriveCall \/ SheetCall

(***************************************************************************)
(* monitor.js: acquireLock.  Monitor m is the process with pid m; every    *)
(* file-system call and process.kill is one step, other processes run in   *)
(* between.                                                                *)
(***************************************************************************)
Monitors == 1..NMonitors

\* the pid a lock file left behind by a monitor that was killed names
StalePid == 99

\* process.kill(pid, 0) does not throw: a process with that pid exists
Alive(pid) == pid \in Monitors /\ mpc[pid] \notin {"off", "exited"}

Signals == {"SIGINT", "SIGTERM"}

\* a configuration in which no launcher runs
NoSignal ==
  /\ spc = "off"
  /\ listeners = [sig \in Signals |-> <<>>]
  /\ onExit = FALSE
  /\ shards = 0
  /\ spawned = {}
  /\ alive = {}
  /\ termed = {}
  /\ caught = "none"

InitLock ==
  /\ lockFile \in {0, StalePid}
  /\ dryRun = FALSE
  /\ mpc = [m \in Monitors |-> "off"]
  /\ seenPid = [m \in Monitors |-> 0]
  /\ hooked = [m \in Monitors |-> FALSE]
  /\ NoSignal

NoLock ==
  /\ lockFile = 0
  /\ mpc = [m \in Monitors |-> "off"]
  /\ seenPid = [m \in Monitors |-> 0]
  /\ hooked = [m \in Monitors |-> FALSE]
  /\ NoSignal

\* the monitor is started
MonitorLaunch(m) ==
  /\ UNCHANGED <<dryRun, budget, pipeVars, retryVars, bfsVars, clockVars, sigVars>>
  /\ mpc[m] = "off"
  /\ mpc' = [mpc EXCEPT ![m] = "start"]
  /\ UNCHANGED <<lockFile, seenPid, hooked>>

\* fs.existsSync(LOCK_PATH)
LockExists(m) ==
  /\ UNCHANGED <<dryRun, budget, pipeVars, retryVars, bfsVars, clockVars, sigVars>>
  /\ mpc[m] = "start"
  /\ mpc' = [mpc EXCEPT ![m] = IF lockFile # 0 THEN "read" ELSE "write"]
  /\ UNCHANGED <<lockFile, seenPid, hooked>>

\* parseInt(fs.readFileSync(LOCK_PATH)); a file gone by now throws into the
\* outer catch, which prints a warning and lets the monitor go on
LockRead(m) ==
  /\ UNCHANGED <<dryRun, budget, pipeVars, retryVars, bfsVars, clockVars, sigVars>>
  /\ mpc[m] = "read"
  /\ IF lockFile = 0
     THEN /\ mpc' = [mpc EXCEPT ![m] = "running"]
          /\ UNCHANGED seenPid
     ELSE /\ seenPid' = [seenPid EXCEPT ![m] = lockFile]
          /\ mpc' = [mpc EXCEPT ![m] = "probe"]
  /\ UNCHANGED <<lockFile, hooked>>

\* process.kill(pid, 0): exit(1) when that process lives, else the lock is stale
LockProbe(m) ==
  /\ UNCHANGED <<dryRun, budget, pipeVars, retryVars, bfsVars, clockVars, sigVars>>
  /\ mpc[m] = "probe"
  /\ mpc' = [mpc EXCEPT ![m] = IF Alive(seenPid[m]) THEN "exited" ELSE "write"]
  /\ UNCHANGED <<lockFile, seenPid, hooked>>

\* fs.writeFileSync(LOCK_PATH, String(process.pid)) and the cleanup handlers
LockWrite(m) ==
  /\ UNCHANGED <<dryRun, budget, pipeVars, retryVars, bfsVars, clockVars, sigVars>>
  /\ mpc[m] = "write"
  /\ lockFile' = m
  /\ hooked' = [hooked EXCEPT ![m] = TRUE]
  /\ mpc' = [mpc EXCEPT ![m] = "running"]
  /\ UNCHANGED seenPid

\* the monitor ends (exit, SIGINT, SIGTERM): cleanup unlinks LOCK_PATH
MonitorStop(m) ==
  /\ UNCHANGED <<dryRun, budget, pipeVars, retryVars, bfsVars, clockVars, sigVars>>
  /\ mpc[m] = "running"
  /\ lockFile' = IF hooked[m] THEN 0 ELSE lockFile
  /\ mpc' = [mpc EXCEPT ![m] = "exited"]
  /\ UNCHANGED <<seenPid, hooked>>

NextLock ==
  \E m \in Monitors :
    \/ MonitorLaunch(m)
    \/ LockExists(m)
    \/ LockRead(m)
    \/ LockProbe(m)
    \/ LockWrite(m)
    \/ MonitorStop(m)

(***************************************************************************)
(* The multi-worker launcher: acquireLock, the workers, the signal         *)
(* handlers.  Node calls the listeners of a signal in the order process.on *)
(* registered them; process.exit runs the 'exit' listeners and ends the    *)
(* process there, so no later listener is called.                          *)
(***************************************************************************)
LauncherPid == 1

\* the launcher about to call acquireLock, no lock file in the way or a
\* stale one
InitSignal ==
  /\ lockFile \in {0, StalePid}
  /\ dryRun = FALSE
  /\ mpc = [m \in Monitors |-> "off"]
  /\ seenPid = [m \in Monitors |-> 0]
  /\ hooked = [m \in Monitors |-> FALSE]
  /\ spc = "lock"
  /\ listeners = [sig \in Signals |-> <<>>]
  /\ onExit = FALSE
  /\ shards = 0
  /\ spawned = {}
  /\ alive = {}
  /\ termed = {}
  /\ caught = "none"

\* what a listener works on: the lock file, the workers signalled, and
\* whether the process has ended
ProcessState ==
  [lock |-> lockFile, termed |-> termed, exited |-> FALSE]

\* process.exit(0): the 'exit' listener of acquireLock unlinks the lock file
\* when it is registered, then the process ends
ProcessExit(st) ==
  [st EXCEPT !.lock = IF onExit THEN 0 ELSE @, !.exited = TRUE]

\* acquireLock's listener: () => { cleanup(); process.exit(0); }
UnlinkHandler(st) == ProcessExit([st EXCEPT !.lock = 0])

\* the launcher's listener: () => { cleanup(); process.exit(0); }, its
\* cleanup calling c.kill('SIGTERM') on every child
KillAllHandler(st) == ProcessExit([st EXCEPT !.termed = spawned])

Handle(h, st) == IF h = "unlink" THEN UnlinkHandler(st) ELSE KillAllHandler(st)

\* the listeners of the signal, called in order for as long as the process
\* lives
RECURSIVE Emit(_, _)
Emit(ls, st) ==
  IF ls = <<>> \/ st.exited THEN st ELSE Emit(Tail(ls), Handle(Head(ls), st))

\* a signal without a listener ends the process at once, 'exit' listeners
\* not called
Deliver(ls, st) ==
  IF ls = <<>> THEN [st EXCEPT !.exited = TRUE] ELSE Emit(ls, st)

\* acquireLock with no live lock in the way: writeFileSync and the three
\* process.on calls, or the catch block when the write throws
LauncherLock ==
  /\ UNCHANGED <<dryRun, budget, pipeVars, retryVars, bfsVars, clockVars>>
  /\ spc = "lock"
  /\ \E written \in BOOLEAN :
       IF written
       THEN /\ lockFile' = LauncherPid
            /\ onExit' = TRUE
            /\ listeners' = [sig \in Signals |-> Append(listeners[sig], "unlink")]
       ELSE UNCHANGED <<lockFile, onExit, listeners>>
  /\ spc' = "count"
  /\ UNCHANGED <<mpc, seenPid, hooked, shards, spawned, alive, termed, caught>>

\* WORKER_COUNT, or the answer to the prompt
LauncherCount ==
  /\ UNCHANGED <<dryRun, budget, pipeVars, retryVars, bfsVars, clockVars>>
  /\ spc = "count"
  /\ shards' \in 1..MaxWorkers
  /\ spc' = "launch"
  /\ UNCHANGED <<lockFile, mpc, seenPid, hooked, listeners, onExit, spawned, alive,
                 termed, caught>>

\* the synchronous end of main: children.push(runWorker(i, shards)) for every
\* i, then the two process.on calls of the launcher
LauncherSpawn ==
  /\ UNCHANGED <<dryRun, budget, pipeVars, retryVars, bfsVars, clockVars>>
  /\ spc = "launch"
  /\ spawned' = 1..shards
  /\ alive' = 1..shards
  /\ listeners' = [sig \in Signals |-> Append(listeners[sig], "killall")]
  /\ spc' = "wait"
  /\ UNCHANGED <<lockFile, mpc, seenPid, hooked, onExit, shards, termed, caught>>

\* a worker ends by itself
WorkerExit(c) ==
  /\ UNCHANGED <<dryRun, budget, pipeVars, retryVars, bfsVars, clockVars>>
  /\ c \in alive
  /\ alive' = alive \ {c}
  /\ UNCHANGED <<lockFile, mpc, seenPid, hooked, spc, listeners, onExit, shards,
                 spawned, termed, caught>>

\* SIGINT or SIGTERM reaches the launcher while it waits (at the prompt, or
\* with its workers running); a worker sent SIGTERM ends
Signal(sig) ==
  /\ UNCHANGED <<dryRun, budget, pipeVars, retryVars, bfsVars, clockVars>>
  /\ spc \in {"count", "wait"}
  /\ \E st \in {Deliver(listeners[sig], ProcessState)} :
       /\ lockFile' = st.lock
       /\ termed' = st.termed
       /\ alive' = alive \ st.termed
  /\ caught' = sig
  /\ spc' = "exited"
  /\ UNCHANGED <<mpc, seenPid, hooked, listeners, onExit, shards, spawned>>

NextSignal ==
  \/ LauncherLock
  \/ LauncherCount
  \/ LauncherSpawn
  \/ \E c \in 1..MaxWorkers : WorkerExit(c)
  \/ \E sig \in Signals : Signal(sig)

(***************************************************************************)
(* Specifications                                                          *)
(***************************************************************************)
\* a single worker
InitSingle == InitPipe /\ NoRetry /\ NoBfs /\ NoClock /\ NoLock
Spec == InitSingle /\ [][NextPipe]_vars

\* a single worker in simulation mode
InitSimulation == InitDryRun /\ NoRetry /\ NoBfs /\ NoClock /\ NoLock
SpecDryRun == InitSimulation /\ [][NextPipe]_vars

\* a single worker on a mixed batch
InitMixed == InitBatch /\ NoRetry /\ NoBfs /\ NoClock /\ NoLock
SpecBatch == InitMixed /\ [][NextPipe]_vars

\* a single worker on a sheet whose header row is not prepared
InitFound == InitSchema /\ NoRetry /\ NoBfs /\ NoClock /\ NoLock
SpecSchema == InitFound /\ [][NextPipe]_vars

\* a single worker in loop mode that keeps running
InitLooping == InitLoop /\ NoRetry /\ NoBfs /\ NoClock /\ NoLock
\* run() in loop mode: `while (true) { await processParticipants(); await sleep }`,
\* seen on pc: a worker that is idle begins its next pass
PassBegins(w) == pc[w] = "idle" /\ pc' = [pc EXCEPT ![w] = "loop"]

\* the awaits of a pass resolve, since the provider never fails here, and the
\* loop of run() never leaves a finished pass without a next one
FairLoop ==
  /\ WF_pc(PassBegins(1))
  /\ WF_vars(Validate(1))
  /\ WF_vars(FindFolder(1))
  /\ WF_vars(UpdateCell(1))
  /\ WF_vars(HasPermission(1))
  /\ WF_vars(GrantPermission(1))
  /\ WF_vars(EndPass(1))

SpecLoop == InitLooping /\ [][NextLoop]_vars /\ FairLoop

\* a single worker: a pass in simulation mode, then one in production mode
InitSimulatedFirst == InitRerun /\ NoRetry /\ NoBfs /\ NoClock /\ NoLock
SpecRerun == InitSimulatedFirst /\ [][NextRerun]_vars

\* a single worker on rows that carry a FolderId
InitResolved == InitCached /\ NoRetry /\ NoBfs /\ NoClock /\ NoLock
SpecCached == InitResolved /\ [][NextPipe]_vars

\* two workers on the same sheet
InitSharded == InitWorkers /\ NoRetry /\ NoBfs /\ NoClock /\ NoLock
SpecWorkers == InitSharded /\ [][NextPipe]_vars

\* one retry-wrapped operation, in production mode or in a dry run
InitOperation == InitRetry /\ NoPipeline /\ NoBfs /\ NoClock /\ NoLock
SpecRetry == InitOperation /\ [][NextRetry]_vars

\* one scoped folder search
InitSearch == InitBfs /\ NoPipeline /\ NoRetry /\ NoClock /\ NoLock
SpecBfs == InitSearch /\ [][NextBfs]_vars

\* one scoped folder search that keeps running, one folder always rate-limited
InitSearchStuck == InitBfsStuck /\ NoPipeline /\ NoRetry /\ NoClock /\ NoLock
SpecBfsStuck == InitSearchStuck /\ [][NextBfsStuck]_vars /\ WF_vars(NextBfsStuck)

\* the Drive calls of one worker, one after the other
InitCalls == InitThrottle /\ NoPipeline /\ NoRetry /\ NoBfs /\ NoLock
SpecThrottle == InitCalls /\ [][NextThrottle]_vars

\* monitors started on one machine
InitMonitors == InitLock /\ NoPipeline /\ NoRetry /\ NoBfs /\ NoClock
SpecLock == InitMonitors /\ [][NextLock]_vars

\* the launcher of the workers and the signals it receives
InitShutdown == InitSignal /\ NoPipeline /\ NoRetry /\ NoBfs /\ NoClock
SpecSignal == InitShutdown /\ [][NextSignal]_vars

Busy(w) == pc[w] \notin {"idle", "off"}

\* "true" in any letter case, spelled out unit by unit
ReadsTrue(cell) ==
  /\ Len(cell) = Len(sTrueLower)
  /\ \A i \in 1..Len(cell) : cell[i] \in {sTrueLower[i], sTrueLower[i] - 32}

IsSharedCellOf(sh, i) == CellAt(sh[i], Columns(header).isSharedCol)

FolderIdCellOf(sh, i) == CellAt(sh[i], Columns(header).folderIdCol)

\* C1: a record whose isShared cell read true (any letter case) at the start of
\* a pass is never handed to permissions.create in that pass, in any pass.
C1_NoGrantForSharedRecord ==
  \A w \in Workers : \A r \in grantCalls[w] : ~ReadsTrue(readAt[w][r - 1].isShared)

\* a second pass has run over a row the first pass marked TRUE after granting
C1_Witness ==
  \E w \in Workers : \E i \in 1..NRows :
    /\ passes[w] = 2
    /\ pc[w] = "idle"
    /\ IsSharedCellOf(sheet0, i) = Empty
    /\ readAt[w][i].isShared = sTRUE
    /\ creates # NoCounts

\* C2: no row is processed (written to, or granted for) by two workers whose
\* passes overlap.
C2_NoRowSharedByWorkers ==
  \A w1 \in Workers : \A w2 \in Workers :
    (w1 # w2 /\ Busy(w1) /\ Busy(w2)) => touched[w1] \cap touched[w2] = {}

\* C3: for the shard count in use, a record's shard is the same whenever the
\* sheet is read, also after the pipeline has written the record's FolderId.
C3_ShardStable ==
  \A w \in Workers : \A i \in 1..NRows :
    shard[w].total > 0 =>
      AssignedShard(NormalizeOne(Participants(sheet, header)[i]), shard[w].total)
        = AssignedShard(NormalizeOne(Participants(sheet0, header)[i]), shard[w].total)

\* C4: for every shard count T >= 1 the shard filter splits the normalized
\* records of a snapshot into T disjoint subsets whose union is all of them.
C4_Partition ==
  \A N \in {Normalized(readAt[w]) : w \in Workers} :
    \A T \in 1..MaxShardTotal :
      \A Part \in {[i \in 0..(T - 1) |-> Range(ShardFiltered(N, T, i))]} :
        /\ UNION {Part[i] : i \in 0..(T - 1)} = Range(N)
        /\ \A i \in 0..(T - 1) : \A j \in 0..(T - 1) :
             i # j => Part[i] \cap Part[j] = {}

\* both workers took a non-empty share of one and the same snapshot
C4_Witness ==
  /\ readAt[1] = readAt[2]
  /\ work[1] # <<>>
  /\ work[2] # <<>>
  /\ Range(work[1]) \cap Range(work[2]) = {}

\* C5 as stated: permissions.create succeeds at most once per (folder, email).
C5_AtMostOneGrant == \A k \in DOMAIN creates : creates[k] <= 1

\* C5 as amended: every successful create beyond the first for a (folder, email)
\* follows a permission check whose listing failed and was taken as "no grant".
C5_GrantsBoundedByFailedChecks ==
  \A k \in DOMAIN creates : creates[k] <= 1 + Count(failOpens, k)

\* the second create happened, after exactly one failed check
C5_Witness == \E k \in DOMAIN creates : creates[k] = 2 /\ Count(failOpens, k) = 1


(***************************************************************************)
(* The retry policy                                                        *)
(***************************************************************************)
\* the attempt ceilings as documented: search 5, permission list 5, grant 6
CeilingOf(op) == IF op = "grant" THEN 6 ELSE 5

\* the documented classification of an error
DocumentedRetryable(e) ==
  \/ e.status = 429
  \/ /\ e.status = 403
     /\ \E r \in {rRate, rUserRate, rSharingRate} :
          \E i \in 0..(Len(e.reason) - Len(r)) :
            \A k \in 1..Len(r) : e.reason[i + k] = r[k]

\* the documented least wait before retry n, in ms
LeastWait(n) == IF 60000 < (2 ^ n) * 1000 THEN 60000 ELSE (2 ^ n) * 1000

RECURSIVE SumSeq(_)
SumSeq(q) == IF q = <<>> THEN 0 ELSE Head(q) + SumSeq(Tail(q))

\* the documented context of the operation under retry
DocumentedContext(op, ctx) ==
  IF op = "search"
  THEN /\ DOMAIN ctx = {"query"}
       /\ Includes(ctx.query, RetryName)
  ELSE ctx = [fileId |-> RetryFileId, email |-> RetryEmail, role |-> roleReader]

DocumentedName(op) ==
  CASE op = "search" -> opFilesList
    [] op = "list" -> opPermList
    [] op = "grant" -> opPermCreate

\* C6: an operation whose first k calls (k <= N-1) fail with a retryable error
\* and whose next call succeeds returns that success after exactly k+1 calls;
\* the wait before retry n is at least min(60000, 2^n * 1000) ms, so the waits
\* add up to at least 2^1 + .. + 2^k seconds.  A retryable failure below the
\* ceiling is always followed by a retry.
C6_RetryUntilSuccess ==
  /\ answer.kind = "ok" =>
       /\ rpc = "done"
       /\ attempt <= CeilingOf(rop) - 1
       /\ calls = attempt + 1
       /\ Len(sleeps) = attempt
       /\ outcome.kind = "value"
       /\ rop = "grant" => outcome.value = answer.data
  /\ \A n \in 1..Len(sleeps) : sleeps[n] >= LeastWait(n)
  /\ SumSeq(sleeps) >= ((2 ^ (Len(sleeps) + 1)) - 2) * 1000
  /\ (/\ answer.kind = "error"
      /\ DocumentedRetryable(answer.error)
      /\ attempt <= CeilingOf(rop) - 1) => rpc \in {"sleep", "call"}

\* five retryable failures, then the sixth permissions.create succeeds
C6_Witness ==
  /\ rop = "grant"
  /\ answer.kind = "ok"
  /\ calls = 6
  /\ Len(sleeps) = 5
  /\ outcome = [kind |-> "value", value |-> answer.data]

\* the provider has answered N calls in a row with a retryable error
Exhausted ==
  /\ answer.kind = "error"
  /\ DocumentedRetryable(answer.error)
  /\ attempt = CeilingOf(rop)

\* C7 as stated: after N retryable failures in a row the operation has made
\* exactly N calls and raises to its caller a terminal error carrying the
\* operation name and the context.
C7_ExhaustionRaisesToCaller ==
  Exhausted =>
    /\ rpc = "done"
    /\ calls = CeilingOf(rop)
    /\ outcome.kind = "raised"
    /\ outcome.error.op = DocumentedName(rop)
    /\ DocumentedContext(rop, outcome.error.ctx)

\* C7 as amended: after N retryable failures in a row the operation has made
\* exactly N calls and its retry loop throws a terminal error carrying the
\* operation name and the context; grantPermission raises it to its caller,
\* the unscoped folder search returns null and hasPermission returns false.
C7_ExhaustionThrowsInside ==
  Exhausted =>
    /\ rpc = "done"
    /\ calls = CeilingOf(rop)
    /\ Len(sleeps) = CeilingOf(rop) - 1
    /\ thrown.op = DocumentedName(rop)
    /\ DocumentedContext(rop, thrown.ctx)
    /\ thrown.error = answer.error
    /\ rop = "grant" => outcome = [kind |-> "raised", error |-> thrown]
    /\ rop = "search" => outcome = [kind |-> "value", value |-> Empty]
    /\ rop = "list" => outcome = [kind |-> "value", value |-> FALSE]

\* hasPermission after five rate-limited permissions.list calls
C7_Witness ==
  /\ rop = "list"
  /\ Exhausted
  /\ calls = 5
  /\ thrown.op = opPermList
  /\ outcome = [kind |-> "value", value |-> FALSE]

\* C8: an error is retried exactly when its status is 429, or 403 with a
\* reason containing rateLimitExceeded, userRateLimitExceeded or
\* sharingRateLimitExceeded; after any other error the operation is over:
\* no further call, no backoff sleep.
C8_OnlyRateLimitsRetried ==
  /\ [](answer.kind = "error" =>
          IF DocumentedRetryable(answer.error)
          THEN rpc \in {"sleep", "call"} \/ attempt >= CeilingOf(rop)
          ELSE /\ rpc = "done"
               /\ calls = attempt
               /\ Len(sleeps) = attempt - 1)
  /\ [][(answer.kind = "error" /\ ~DocumentedRetryable(answer.error)) =>
          (calls' = calls /\ sleeps' = sleeps)]_vars

\* a 403 that is no rate limit ends the operation after one retried rate limit
C8_Witness ==
  /\ answer = [kind |-> "error", error |-> [status |-> 403, reason |-> rForbidden]]
  /\ calls = 2
  /\ Len(sleeps) = 1
  /\ rpc = "done"

(***************************************************************************)
(* The scoped folder search                                                *)
(***************************************************************************)
\* C9: with the parent's children at depth 1, no folder at depth 4 or deeper
\* is compared with the target name or returned.
C9_NothingBeyondDepthThree ==
  /\ \A j \in compared : DepthOf(tree, j) <= 3
  /\ found # <<>> => DepthOf(tree, found[1]) <= 3

\* C10: whatever listings are rate-limited, the folder returned is a match of
\* minimal depth among the matching folders under the parent.
C10_MinimalDepthMatch ==
  (bpc = "done" /\ found # <<>> /\ abandoned = 0) =>
    \A j \in NodesOf(tree) :
      IsMatch(tree, j) => DepthOf(tree, found[1]) <= DepthOf(tree, j)

(***************************************************************************)
(* The record loop                                                         *)
(***************************************************************************)
\* the events that end a record, and those of them that are skips
EndEvents ==
  {"invalid", "duplicate", "shared", "notfound", "has", "granted", "dryrun", "raised"}

SkipEvents == {"invalid", "duplicate", "shared"}

\* the events of a row in the pass worker w is in, or has just ended
EndsOf(w, row) ==
  {k \in 1..Len(trail[w]) : trail[w][k].row = row /\ trail[w][k].ev \in EndEvents}

EndedAs(w, row, evs) ==
  /\ Cardinality(EndsOf(w, row)) = 1
  /\ \A k \in EndsOf(w, row) : trail[w][k].ev \in evs

PassOver(w) == pc[w] = "idle" /\ passes[w] > 0

\* the record at position k of the batch is behind the loop
Handled(w, k) == k < idx[w] /\ k <= Len(work[w])

\* trimmed and lower-cased, as the claim compares two records
SamePair(a, b) ==
  /\ ToLower(Trim(a.nama)) = ToLower(Trim(b.nama))
  /\ ToLower(Trim(a.email)) = ToLower(Trim(b.email))

\* C11 as stated: of two records of the table with the same trimmed,
\* lower-cased (name, email), whatever their isShared and FolderId cells, a
\* pass ends exactly one in a non-skip state and the other as a duplicate.
C11_OneProcessedOneDuplicate ==
  \A w \in Workers :
    PassOver(w) =>
      \A i \in 1..Len(readAt[w]) : \A j \in 1..Len(readAt[w]) :
        (i < j /\ SamePair(readAt[w][i], readAt[w][j])) =>
          \E x \in {i, j} : \E y \in {i, j} :
            /\ x # y
            /\ EndedAs(w, readAt[w][x].rowIndex, EndEvents \ SkipEvents)
            /\ EndedAs(w, readAt[w][y].rowIndex, {"duplicate"})

\* C11 as amended: among the records of one working batch whose email
\* contains '@', the first one with a given lower-cased (name, email) ends in
\* a non-skip state and every later one with that pair ends as a duplicate,
\* once it is handled.
C11_LaterOfBatchIsDuplicate ==
  \A w \in Workers :
    \A j \in 1..Len(work[w]) :
      (/\ Handled(w, j)
       /\ \E k \in 1..Len(work[w][j].email) : work[w][j].email[k] = 64) =>
        IF \E i \in 1..(j - 1) : SamePair(work[w][i], work[w][j])
        THEN EndedAs(w, work[w][j].rowIndex, {"duplicate"})
        ELSE EndedAs(w, work[w][j].rowIndex, EndEvents \ SkipEvents)

\* two rows "A" / "a@": the first was granted, the second skipped as a duplicate
C11_Witness ==
  /\ PassOver(1)
  /\ Len(work[1]) = 2
  /\ SamePair(work[1][1], work[1][2])
  /\ EndedAs(1, work[1][1].rowIndex, {"granted"})
  /\ EndedAs(1, work[1][2].rowIndex, {"duplicate"})

C13_FailedCheckGoesOnToGrant ==
  \A w \in Workers :
    \A k \in 1..Len(trail[w]) :
      trail[w][k].ev = "checkfailed" =>
        IF k = Len(trail[w])
        THEN pc[w] = "grant" /\ writes[w] = <<>>
        ELSE /\ trail[w][k + 1].row = trail[w][k].row
             /\ trail[w][k + 1].ev \in {"granted", "dryrun", "raised"}
             /\ ~dryRun => trail[w][k].row \in grantCalls[w]

\* the listing failed and permissions.create was called and succeeded
C13_Witness ==
  \E k \in 1..Len(trail[1]) :
    /\ trail[1][k].ev = "checkfailed"
    /\ k < Len(trail[1])
    /\ trail[1][k + 1].ev = "granted"
    /\ \E q \in DOMAIN creates : creates[q] = 1 /\ Count(failOpens, q) = 1

\* the column isShared is written to
SharedColumn == ColFor(Columns(header).isSharedCol, <<68>>)

WritesShared(e, val) == e.ev = "write" /\ e.col = SharedColumn /\ e.val = val

\* C14: isShared=TRUE is written for a record only after its grantPermission
\* returned or its hasPermission returned true, and never for a record whose
\* grant raised; that record gets isShared=FALSE.
C14_SharedWrittenAfterItsStep ==
  \A w \in Workers :
    \A k \in 1..Len(trail[w]) :
      LET e == trail[w][k]
      IN  /\ WritesShared(e, sTRUE) =>
               /\ \E j \in 1..(k - 1) :
                    /\ trail[w][j].row = e.row
                    /\ trail[w][j].ev \in {"granted", "dryrun", "has"}
               /\ \A j \in 1..Len(trail[w]) :
                    trail[w][j].row = e.row => trail[w][j].ev # "raised"
          /\ e.ev = "raised" =>
               \/ /\ writes[w] # <<>>
                  /\ Head(writes[w]).row = e.row
                  /\ Head(writes[w]).col = SharedColumn
                  /\ Head(writes[w]).val = sFALSE
               \/ /\ k < Len(trail[w])
                  /\ trail[w][k + 1].row = e.row
                  /\ WritesShared(trail[w][k + 1], sFALSE)

\* a record whose grant raised in the first pass (isShared FALSE) is granted in
\* the second pass and only then marked TRUE
C14_Witness ==
  /\ PassOver(1)
  /\ \E k \in 1..Len(trail[1]) : \E j \in 1..Len(trail[1]) :
       /\ j < k
       /\ trail[1][j].ev = "granted"
       /\ trail[1][j].row = trail[1][k].row
       /\ WritesShared(trail[1][k], sTRUE)
  /\ passes[1] = 2
  /\ \E k \in 1..Len(readAt[1]) : readAt[1][k].isShared = sFALSE

\* the column LastLog is written to
LogColumn == ColFor(Columns(header).lastLogCol, <<70>>)

\* C15: in simulation mode no pass calls permissions.create; a record whose
\* folder is found and that has no existing grant gets isShared=TRUE and a
\* LastLog containing DRY_RUN written to its row.
C15_DryRunNeverCreates ==
  dryRun =>
    /\ creates = NoCounts
    /\ perms \in InitialPerms
    /\ \A w \in Workers :
         /\ grantCalls[w] = {}
         /\ \A k \in 1..Len(trail[w]) :
              LET e == trail[w][k]
              IN  /\ e.ev \notin {"granted", "raised"}
                  /\ e.ev \in {"hasnot", "checkfailed"} =>
                       IF k = Len(trail[w])
                       THEN pc[w] = "grant"
                       ELSE trail[w][k + 1].row = e.row /\ trail[w][k + 1].ev = "dryrun"
                  /\ (e.ev = "dryrun" /\ pc[w] \in {"loop", "idle"}) =>
                       /\ \E j \in (k + 1)..Len(trail[w]) :
                            trail[w][j].row = e.row /\ WritesShared(trail[w][j], sTRUE)
                       /\ \E j \in (k + 1)..Len(trail[w]) :
                            /\ trail[w][j].row = e.row
                            /\ trail[w][j].ev = "write"
                            /\ trail[w][j].col = LogColumn
                            /\ Includes(trail[w][j].val, tDryRun)

\* a simulated grant whose write-backs landed in the sheet
C15_Witness ==
  /\ dryRun
  /\ PassOver(1)
  /\ \E k \in 1..Len(trail[1]) :
       /\ trail[1][k].ev = "dryrun"
       /\ IsSharedCellOf(sheet, trail[1][k].row - 1) = sTRUE
       /\ IsSharedCellOf(sheet0, trail[1][k].row - 1) = Empty
       /\ Includes(CellAt(sheet[trail[1][k].row - 1], Columns(header).lastLogCol), tDryRun)
  /\ perms = {}

\* the columns isFolderExists and FolderId are written to
ExistsColumn == ColFor(Columns(header).isFolderExistsCol, <<69>>)

FolderIdColumn == ColFor(Columns(header).folderIdCol, <<67>>)

\* the pass wrote val, or a line containing it, to a column of the row
Wrote(w, row, col, val) ==
  \E k \in 1..Len(trail[w]) :
    /\ trail[w][k].row = row
    /\ trail[w][k].ev = "write"
    /\ trail[w][k].col = col
    /\ Includes(trail[w][k].val, val)

HasAt(s) == \E k \in 1..Len(s) : s[k] = 64

\* C16: in a first pass in production mode during which no provider call and
\* no write fails, a record with a non-empty name, an email containing '@' in
\* any letter case, isShared not true and no FolderId, whose folder exists and
\* carries no reader entry for the email, and which is the first row with its
\* (name, email), ends Granted: isFolderExists=TRUE, the folder's id and
\* isShared=TRUE are written, the reader entry is created for the lower-cased
\* email, and LastLog contains "GRANTED reader -> email" (arrow U+2192).
C16_GrantedPath ==
  \A w \in Workers :
    (PassOver(w) /\ passes[w] = 1 /\ budget = MaxFaults /\ ~dryRun) =>
      \A i \in 1..Len(readAt[w]) : \A f \in DriveFolders :
        LET raw == readAt[w][i]
            email == ToLower(Trim(raw.email))
        IN  (/\ Trim(raw.nama) # Empty
             /\ HasAt(raw.email)
             /\ ~ReadsTrue(raw.isShared)
             /\ raw.folderId = Empty
             /\ ToLower(f.name) = ToLower(Trim(raw.nama))
             /\ \A e \in perms :
                  (/\ e.fileId = f.id
                   /\ ToLower(e.emailAddress) = email
                   /\ e.role = roleReader) => Count(creates, <<e.fileId, e.emailAddress>>) > 0
             /\ \A j \in 1..(i - 1) : ~SamePair(readAt[w][j], raw)) =>
              /\ EndedAs(w, raw.rowIndex, {"granted"})
              /\ Wrote(w, raw.rowIndex, ExistsColumn, sTRUE)
              /\ Wrote(w, raw.rowIndex, FolderIdColumn, f.id)
              /\ Wrote(w, raw.rowIndex, SharedColumn, sTRUE)
              /\ Wrote(w, raw.rowIndex, LogColumn,
                       tGranted \o <<32>> \o roleReader \o <<32, 8594, 32>> \o email)
              /\ [fileId |-> f.id, emailAddress |-> email, role |-> roleReader] \in perms
              /\ Count(creates, <<f.id, email>>) = 1

\* "A" / "A@" in the first row: granted to "a@", the sheet shows the result
C16_Witness ==
  /\ PassOver(1) /\ passes[1] = 1 /\ budget = MaxFaults
  /\ readAt[1][1].email = <<65, 64>>
  /\ EndedAs(1, 2, {"granted"})
  /\ IsSharedCellOf(sheet, 1) = sTRUE
  /\ FolderIdCellOf(sheet, 1) = <<50>>
  /\ Includes(CellAt(sheet[1], Columns(header).lastLogCol),
              tGranted \o <<32>> \o roleReader \o <<32, 8594, 32, 97, 64>>)
  /\ [fileId |-> <<50>>, emailAddress |-> <<97, 64>>, role |-> roleReader] \in perms

\* the updateCell calls made or still to make for a row, in order
RowWrites(w, row) ==
  LET OfRowT(e) == e.row = row /\ e.ev = "write"
      OfRowW(x) == x.row = row
      done == FilterSeq(trail[w], OfRowT)
      todo == FilterSeq(writes[w], OfRowW)
  IN  [k \in 1..Len(done) |-> [col |-> done[k].col, val |-> done[k].val]] \o
      [k \in 1..Len(todo) |-> [col |-> todo[k].col, val |-> todo[k].val]]

\* "FOLDER NOT FOUND"
sFolderNotFound == <<70, 79, 76, 68, 69, 82, 32, 78, 79, 84, 32, 70, 79, 85, 78, 68>>

\* the record of the batch that sits in a row
RecordAt(w, row) == CHOOSE p \in Range(work[w]) : p.rowIndex = row

\* C17: a record without a cached FolderId whose search returns none gets
\* isFolderExists=FALSE and a LastLog containing FOLDER NOT FOUND, and nothing
\* else: no permission listing, no grant, no isShared write; the loop goes on.
C17_FolderNotFound ==
  \A w \in Workers :
    \A k \in 1..Len(trail[w]) :
      trail[w][k].ev = "notfound" =>
        LET row == trail[w][k].row
            ws == RowWrites(w, row)
        IN  /\ RecordAt(w, row).folderId = Empty
            /\ \A j \in 1..Len(trail[w]) :
                 trail[w][j].row = row => trail[w][j].ev \in {"notfound", "write"}
            /\ row \notin grantCalls[w]
            /\ Len(ws) = 2
            /\ ws[1] = [col |-> ExistsColumn, val |-> sFALSE]
            /\ ws[2].col = LogColumn
            /\ Includes(ws[2].val, sFolderNotFound)
            /\ pc[w] \in (IF writes[w] # <<>> /\ Head(writes[w]).row = row
                          THEN {"write"} ELSE {"loop", "idle", "find", "write", "check", "grant"})

\* "C" has no folder and no call fails: the row is marked and the next record
\* is granted
C17_Witness ==
  /\ PassOver(1)
  /\ budget = MaxFaults
  /\ Len(work[1]) = 2
  /\ work[1][1].nama = <<67>>
  /\ EndedAs(1, 2, {"notfound"})
  /\ CellAt(sheet[1], Columns(header).isFolderExistsCol) = sFALSE
  /\ Includes(CellAt(sheet[1], Columns(header).lastLogCol), sFolderNotFound)
  /\ IsSharedCellOf(sheet, 1) = Empty
  /\ EndedAs(1, 3, {"granted"})

\* the rows of the current batch of a worker that ended in one of the events
RowsEnded(w, evs) == {row \in 1..(NRows + 1) : EndedAs(w, row, evs)}

\* C18 as written: after a pass the errors counter is the number of records
\* that ended in an error, and a record whose folder was not found is not
\* counted.
C18_ErrorsCountRaisedOnly ==
  \A w \in Workers :
    PassOver(w) => stats[w].errors = Cardinality(RowsEnded(w, {"raised"}))

\* C18: after a pass the errors counter is the number of records that ended
\* in an error plus the number of records whose folder was not found.
C18_ErrorsCountRaisedAndNotFound ==
  \A w \in Workers :
    PassOver(w) =>
      stats[w].errors = Cardinality(RowsEnded(w, {"raised"})) +
                        Cardinality(RowsEnded(w, {"notfound"}))

\* a pass where no call fails and one name has no folder reports one error
C18_Witness ==
  /\ PassOver(1)
  /\ budget = MaxFaults
  /\ Len(work[1]) = 2
  /\ RowsEnded(1, {"notfound"}) = {2}
  /\ RowsEnded(1, {"raised"}) = {}
  /\ stats[1].errors = 1

\* "SKIP: INVALID EMAIL"
sSkipInvalidEmail ==
  <<83, 75, 73, 80, 58, 32, 73, 78, 86, 65, 76, 73, 68, 32, 69, 77, 65, 73, 76>>

\* C19: a record of the batch whose normalized email has no '@' is skipped:
\* isShared=FALSE and a LastLog containing SKIP: INVALID EMAIL are written to
\* its row, no folder search, permission listing or grant is made for it, and
\* its key is not put into the set of seen keys.
C19_InvalidEmailSkipped ==
  \A w \in Workers :
    /\ \A k \in 1..Len(work[w]) :
         (Handled(w, k) /\ ~HasAt(work[w][k].email)) =>
           EndedAs(w, work[w][k].rowIndex, {"invalid"})
    /\ \A k \in 1..Len(trail[w]) :
         trail[w][k].ev = "invalid" =>
           LET row == trail[w][k].row
               ws == RowWrites(w, row)
           IN  /\ ~HasAt(RecordAt(w, row).email)
               /\ \A j \in 1..Len(trail[w]) :
                    trail[w][j].row = row => trail[w][j].ev \in {"invalid", "write"}
               /\ row \notin grantCalls[w]
               /\ Len(ws) = 2
               /\ ws[1] = [col |-> SharedColumn, val |-> sFALSE]
               /\ ws[2].col = LogColumn
               /\ Includes(ws[2].val, sSkipInvalidEmail)
               /\ \/ DedupKey(RecordAt(w, row)) \notin seen[w]
                  \/ \E q \in Range(work[w]) :
                       /\ q.rowIndex # row
                       /\ HasAt(q.email)
                       /\ DedupKey(q) = DedupKey(RecordAt(w, row))

\* two records with the same name and the same email without '@': both are
\* skipped as invalid, the second is not taken for a duplicate of the first
C19_Witness ==
  /\ PassOver(1)
  /\ Len(work[1]) = 2
  /\ work[1][1].email = <<97>>
  /\ DedupKey(work[1][1]) = DedupKey(work[1][2])
  /\ EndedAs(1, 2, {"invalid"})
  /\ EndedAs(1, 3, {"invalid"})
  /\ seen[1] = {}
  /\ CellAt(sheet[1], Columns(header).isSharedCol) = sFALSE
  /\ Includes(CellAt(sheet[1], Columns(header).lastLogCol), sSkipInvalidEmail)

(***************************************************************************)
(* The pause between Drive calls                                           *)
(***************************************************************************)
\* every two neighbours of a sequence of times are at least d apart
Spaced(times, d) ==
  \A k \in 2..Len(times) : times[k] - times[k - 1] >= d

\* C20: two consecutive returns of throttle() in a worker are at least
\* throttleMs apart (2500 ms with the default), and so are the starts of two
\* consecutive Drive calls, each of which starts when its throttle() returns.
C20_CallsSpacedByThrottle ==
  /\ Spaced(acquired, throttleMs)
  /\ Spaced(driveCalls, throttleMs)
  /\ throttleMs = defaultThrottleMs =>
       Spaced(acquired, 2500) /\ Spaced(driveCalls, 2500)
  /\ Len(driveCalls) <= Len(acquired)
  /\ \A k \in 1..Len(driveCalls) : driveCalls[k] = acquired[k]
  /\ tpc = "sleeping" => wakeAt >= lastApiCallAt + throttleMs

\* the second call came 1200 ms after the first started, throttle() slept
\* and let it go exactly 2500 ms after the first; the third had not to wait
C20_Witness ==
  /\ throttleMs = defaultThrottleMs
  /\ Len(driveCalls) = 3
  /\ driveCalls[1] = StartClock
  /\ driveCalls[2] = driveCalls[1] + 2500
  /\ wakeAt = driveCalls[2]
  /\ driveCalls[3] = driveCalls[2] + 4000

\* the times of the calls to one API, in order
TimesOf(issued, api) ==
  LET OfApi(c) == c.api = api
      sel == FilterSeq(issued, OfApi)
  IN  [k \in 1..Len(sel) |-> sel[k].at]

\* C21 as written: no two outbound calls of a worker, to the Drive or to the
\* Sheets API, are issued less than throttleMs apart.
C21_EveryCallSpaced ==
  \A k \in 2..Len(outbound) : outbound[k].at - outbound[k - 1].at >= throttleMs

\* C21: every Drive call has its own return of throttle() and two Drive calls
\* are at least throttleMs apart; the calls to the Sheets API take no
\* acquisition.
C21_DriveCallsGated ==
  /\ Spaced(TimesOf(outbound, "drive"), throttleMs)
  /\ TimesOf(outbound, "drive") = driveCalls
  /\ Len(acquired) = Len(driveCalls) + (IF tpc = "granted" THEN 1 ELSE 0)
  /\ \A k \in 1..Len(driveCalls) : acquired[k] = driveCalls[k]

\* a cell update right after a Drive call and a second one right after it,
\* with the pause set to 1000 ms, then the next Drive call
C21_Witness ==
  /\ throttleMs = 1000
  /\ Len(outbound) = 4
  /\ outbound[1].api = "drive"
  /\ outbound[2] = [api |-> "sheets", at |-> outbound[1].at]
  /\ outbound[3] = [api |-> "sheets", at |-> outbound[1].at]
  /\ outbound[4] = [api |-> "drive", at |-> outbound[1].at + 1000]
  /\ Len(acquired) = 2

(***************************************************************************)
(* The sheet as it is found                                                *)
(***************************************************************************)
\* some header cell, trimmed and lower-cased, is one of the accepted names
HasSynonym(hd, names) ==
  \E i \in 1..Len(hd) : \E k \in 1..Len(names) : ToLower(Trim(hd[i])) = names[k]

\* the documented schema errors
SchemaError(hd, sh) ==
  \/ hd = <<>>
  \/ ~HasSynonym(hd, nameCandidates)
  \/ ~HasSynonym(hd, emailCandidates)
  \/ sh = <<>>

EventsOf(w, evs) == {k \in 1..Len(trail[w]) : trail[w][k].ev \in evs}

\* C22: with an empty header row, no name or no email column, or no data
\* rows, getSpreadsheetDataFlexible yields no data: the pass ends with no
\* record processed, no Drive call and no write to a row of a participant.
C22_SchemaErrorEndsPass ==
  \A w \in Workers :
    (passes[w] > 0 /\ SchemaError(header0, sheet0)) =>
      /\ EventsOf(w, {"nodata"}) # {}
      /\ pc[w] = "idle"
      /\ work[w] = <<>>
      /\ readAt[w] = <<>>
      /\ stats[w] = ZeroStats
      /\ \A k \in 1..Len(trail[w]) : trail[w][k].ev \in {"header", "nodata"}
      /\ grantCalls[w] = {}
      /\ touched[w] = {}
      /\ creates = NoCounts
      /\ failOpens = NoCounts
      /\ perms = {}
      /\ sheet = sheet0

\* a header row without an email column over two data rows, read twice
C22_Witness ==
  /\ header0 = <<hNama>>
  /\ Len(sheet0) = NRows
  /\ passes[1] = 2
  /\ EventsOf(1, {"nodata"}) # {}
  /\ header = header0

\* the four columns the tool keeps, and those of them a header row lacks
KeptColumns == {hFolderId, hIsShared, hIsFolderExists, hLastLog}

AbsentFrom(hd) == {h \in KeptColumns : \A i \in 1..Len(hd) : hd[i] # h}

\* the header row can be read: it has cells, a name and an email column
Readable(hd) ==
  hd # <<>> /\ HasSynonym(hd, nameCandidates) /\ HasSynonym(hd, emailCandidates)

\* C23: the header cells of the absent columns among FolderId, isShared,
\* isFolderExists, LastLog, and only those, are written right of the last
\* existing header cell, once; no existing header cell changes its value or
\* its place, and no later pass writes a header cell.
C23_HeaderMigratedOnce ==
  \A w \in {1} :
    \E added \in {[k \in 1..(Len(header) - Len(header0)) |-> header[Len(header0) + k]]} :
      /\ Len(header) >= Len(header0)
      /\ \A i \in 1..Len(header0) : header[i] = header0[i]
      /\ (passes[w] > 0 /\ Readable(header0)) =>
           /\ Range(added) = AbsentFrom(header0)
           /\ Len(added) = Cardinality(AbsentFrom(header0))
      /\ ~(passes[w] > 0 /\ Readable(header0)) => added = <<>>
      /\ \A k \in EventsOf(w, {"header"}) :
           /\ passes[w] = 1
           /\ k = 1
           /\ ColumnOfA1(trail[w][k].col) = Len(header0)
           /\ trail[w][k].val = added
           /\ added # <<>>

\* Nama, Email, isShared: FolderId, isFolderExists and LastLog were added in
\* the first pass, which granted row 2 and marked it in column C; the second
\* pass wrote no header cell
C23_Witness ==
  /\ header0 = <<hNama, hEmail, hIsShared>>
  /\ header = <<hNama, hEmail, hIsShared, hFolderId, hIsFolderExists, hLastLog>>
  /\ passes[1] = 2
  /\ EventsOf(1, {"header"}) = {}
  /\ EventsOf(1, {"nodata"}) = {}
  /\ CellAt(sheet[1], 2) = sTRUE

\* the smaller of two numbers
Min(a, b) == IF a < b THEN a ELSE b

\* the records of a reading that are left for a worker: name and email not
\* blank, isShared not true, of the worker's shard; in the order of the table
LeftFor(w) ==
  LET Left(p) ==
        /\ Trim(p.nama) # Empty
        /\ Trim(p.email) # Empty
        /\ ToLower(p.isShared) # sTrueLower
        /\ shard[w].total > 0 =>
             HashRem(hashKey(IF p.folderId # Empty THEN p.folderId
                             ELSE ToLower(Trim(p.nama))), shard[w].total)
               = shard[w].index
  IN  FilterSeq(readAt[w], Left)

\* C24: a pass drives min(maxPerRun, records left) records, the first ones
\* of those left in the order of the table, and gives no call and no write to
\* any other row.
C24_BatchIsBoundedPrefix ==
  \A w \in {1} :
    \E left \in {LeftFor(w)} : \E n \in {Min(maxPerRun, Len(LeftFor(w)))} :
      /\ Len(work[w]) = n
      /\ \A k \in 1..n : work[w][k].rowIndex = left[k].rowIndex
      /\ stats[w].total <= n
      /\ PassOver(w) => stats[w].total = n
      /\ \A k \in 1..Len(trail[w]) :
           trail[w][k].row >= 2 =>
             \E j \in 1..n : left[j].rowIndex = trail[w][k].row
      /\ \A row \in grantCalls[w] \cup touched[w] :
           \E j \in 1..n : left[j].rowIndex = row

\* two records left, maxPerRun = 1: the pass handled row 2 and left row 3 alone
C24_Witness ==
  /\ maxPerRun = 1
  /\ PassOver(1)
  /\ passes[1] = 1
  /\ Len(LeftFor(1)) = 2
  /\ stats[1].total = 1
  /\ EndedAs(1, 2, {"granted"})
  /\ sheet[2] = sheet0[2]
  /\ sheet[1] # sheet0[1]

(***************************************************************************)
(* The monitor's lock                                                      *)
(***************************************************************************)
\* C25: however two monitors that start interleave the steps of acquireLock,
\* at most one of them is past acquireLock and running at a time.
C25_AtMostOneMonitor ==
  Cardinality({m \in Monitors : mpc[m] = "running"}) <= 1

(***************************************************************************)
(* The scoped folder search, kept running                                  *)
(***************************************************************************)
\* C26: whatever the provider answers to the listings, a rate limit every
\* time for one folder included, the scoped search returns in the end.
C26_SearchReturns == <>(bpc = "done")

(***************************************************************************)
(* Where the write-backs land                                              *)
(***************************************************************************)
\* the text is a log line: it starts with the timestamp
IsLogLine(val) == Len(val) >= Len(tTs) /\ SubSeq(val, 1, Len(tTs)) = tTs

\* the header of the column an A1 column names
HeaderOfColumn(letters) == CellAt(header, ColumnOfA1(letters))

\* C27: every log line the pipeline writes for a record, on every outcome,
\* lands in the column whose header is LastLog, whatever columns precede it.
C27_LogLinesLandInLastLog ==
  \A w \in Workers :
    \A k \in 1..Len(trail[w]) :
      (trail[w][k].ev = "write" /\ IsLogLine(trail[w][k].val)) =>
        HeaderOfColumn(trail[w][k].col) = hLastLog

(***************************************************************************)
(* The counters of a pass                                                  *)
(***************************************************************************)
\* C28: the counters of a pass start at zero; each record of the batch adds
\* one to total and one to exactly one of done, skipped and errors; between
\* two records and at the end total = done + skipped + errors; no counter
\* goes down within a pass.
C28_CountersBalance ==
  \A w \in Workers :
    \E done \in {Cardinality(RowsEnded(w, {"granted", "dryrun"}))} :
    \E skipped \in {Cardinality(RowsEnded(w, SkipEvents \cup {"has"}))} :
    \E errors \in {Cardinality(RowsEnded(w, {"raised", "notfound"}))} :
      /\ stats[w].done = done
      /\ stats[w].skipped = skipped
      /\ stats[w].errors = errors
      /\ \A k \in 1..Len(work[w]) :
           Cardinality(EndsOf(w, work[w][k].rowIndex)) <= 1
      /\ pc[w] \in {"loop", "idle"} =>
           /\ stats[w].total = done + skipped + errors
           /\ stats[w].total = IF work[w] = <<>> THEN 0 ELSE idx[w] - 1
      /\ pc[w] \in {"find", "check", "grant"} =>
           /\ stats[w].total = done + skipped + errors + 1
           /\ stats[w].total = idx[w]
      /\ pc[w] = "write" =>
           /\ stats[w].total - (done + skipped + errors) \in {0, 1}
           /\ stats[w].total = idx[w]
      /\ (pc[w] = "loop" /\ idx[w] = 1) => stats[w] = ZeroStats

\* a pass over "C" (no folder) and " B": one error, one done
C28_Witness ==
  /\ PassOver(1)
  /\ budget = MaxFaults
  /\ stats[1] = [total |-> 2, done |-> 1, skipped |-> 0, errors |-> 1]

(***************************************************************************)
(* Loop mode                                                               *)
(***************************************************************************)
\* the row had, before any pass, a name, an email with '@' and a folder of
\* its name
Sharable(i) ==
  LET nama == Trim(CellAt(sheet0[i], Columns(header0).nameCol))
      email == Trim(CellAt(sheet0[i], Columns(header0).emailCol))
  IN  /\ nama # Empty
      /\ HasAt(email)
      /\ \E f \in DriveFolders : ToLower(f.name) = ToLower(nama)

\* C29: in loop mode, with a provider that never fails, every record with a
\* valid email and an existing folder gets isShared=TRUE in the end, for
\* every maxPerRun >= 1 and whatever rows precede it.
C29_EverySharableRowShared ==
  <>(\A i \in 1..NRows : Sharable(i) => IsSharedCellOf(sheet, i) = sTRUE)

(***************************************************************************)
(* C30: a simulated pass and the production pass after it                  *)
(***************************************************************************)
\* the production pass that followed the simulated one is over
ProductionPassOver(w) == ~dryRun /\ pc[w] = "idle" /\ passes[w] > 1

\* the row was not marked shared before any pass and is marked shared now
MarkedShared(i) ==
  IsTrue(IsSharedCellOf(sheet, i)) /\ ~IsTrue(IsSharedCellOf(sheet0, i))

\* Drive holds a reader entry for the row's email on the folder of the row's
\* name
HasReaderEntry(i) ==
  \E e \in perms :
    /\ \E f \in MatchingFolders(Trim(CellAt(sheet[i], Columns(header).nameCol))) :
         e.fileId = f.id
    /\ ToLower(e.emailAddress) = ToLower(Trim(CellAt(sheet[i], Columns(header).emailCol)))
    /\ e.role = roleReader

\* C30: a simulated pass consumes no record: once the production pass that
\* follows it is over, every row marked isShared=TRUE has its reader entry at
\* the provider, permissions.create having been issued for it.
C30_SimulationConsumesNothing ==
  \A w \in Workers :
    ProductionPassOver(w) =>
      \A i \in 1..NRows : MarkedShared(i) => HasReaderEntry(i)

(***************************************************************************)
(* C31: the launcher's shutdown                                            *)
(***************************************************************************)
\* the launcher ended on a signal it received after launching its workers
StoppedAfterLaunch == spc = "exited" /\ caught \in Signals /\ spawned # {}

\* C31: a launcher that receives SIGINT or SIGTERM after launching its
\* workers has called kill('SIGTERM') on every worker it spawned by the time
\* it has exited.
C31_ShutdownStopsWorkers ==
  StoppedAfterLaunch => spawned \subseteq termed

(***************************************************************************)
(* C32: the cached folder id                                               *)
(***************************************************************************)
\* the FolderId cell of the row as the pass read it
ReadFolderId(w, row) == readAt[w][row - 1].folderId

\* the worker is about to call hasPermission or grantPermission for a record
\* whose FolderId cell was not empty
AtCallWithCachedId(w) ==
  /\ pc[w] \in {"check", "grant"}
  /\ ReadFolderId(w, work[w][idx[w]].rowIndex) # Empty

\* C32: for a record whose FolderId cell is non-empty when the sheet is read,
\* the pass makes no folder search, hands exactly that id to the permission
\* check and to the grant, and writes nothing to the FolderId cell.
C32_CachedFolderIdReused ==
  \A w \in Workers :
    /\ \A k \in 1..Len(trail[w]) :
         LET e == trail[w][k]
         IN  /\ e.ev \in {"found", "notfound"} => ReadFolderId(w, e.row) = Empty
             /\ (e.ev = "write" /\ e.col = FolderIdColumn) =>
                  ReadFolderId(w, e.row) = Empty
    /\ AtCallWithCachedId(w) =>
         folder[w] = ReadFolderId(w, work[w][idx[w]].rowIndex)

\* a pass that granted on the cached id of a row whose name belongs to
\* another folder, or to none
C32_Witness ==
  /\ PassOver(1)
  /\ \E k \in 1..Len(trail[1]) :
       LET e == trail[1][k]
           id == ReadFolderId(1, e.row)
           p == readAt[1][e.row - 1]
       IN  /\ e.ev = "granted"
           /\ id # Empty
           /\ id \notin {f.id : f \in MatchingFolders(Trim(p.nama))}
           /\ FolderIdCellOf(sheet, e.row - 1) = id
           /\ \E g \in perms :
                g.fileId = id /\ g.emailAddress = ToLower(Trim(p.email))

=============================================================================
